---- MODULE Spec2Model ----
(***************************************************************************)
(* A model of offline-transcriber: the command-line orchestrator (cli.py), *)
(* the audio preparer's temporary-file lifecycle (audio.py), the lazily    *)
(* loaded transcription adapter (transcriber.py) and the output writer     *)
(* save_transcription (postprocessor.py). The functions of audio.py and    *)
(* postprocessor.py that are called on their own (load_audio,              *)
(* preprocess_audio, get_audio_array, cleanup_temp_file,                   *)
(* _format_timestamp, the three generators) have a specification each over *)
(* the same variables.                                                     *)
(*                                                                         *)
(* Times are Python floats: a time of t milliseconds is the double nearest *)
(* to t/1000, held exactly, so that int((s - int(s)) * 1000) is computed   *)
(* as the interpreter computes it. Samples are numpy float32 values, held  *)
(* exactly in the same way.                                                *)
(*                                                                         *)
(* Strings are sequences of one-character strings, so that lower-casing,   *)
(* extension stripping and sorting are computed character by character.    *)
(* The external engine (whisper), the codec (pydub) and the file system    *)
(* are environments: each of their calls succeeds or raises, chosen        *)
(* nondeterministically.                                                   *)
(***************************************************************************)
EXTENDS Integers, Sequences, FiniteSets, TLC

VARIABLES
  args,          \* parsed command line: input, batch, formats, task, output
  env,           \* the environment: what the input path is on disk, whisper installed
  pc,            \* position of main()
  exit_code,     \* value returned by main() ("0" or "1"), "none" before it returns
  audio_files,   \* main(): sorted list returned by find_audio_files
  file_i,        \* main(): index of the batch loop
  step,          \* position inside process_single_file / process_audio_file
  cur,           \* process_single_file(): input_path of the running call
  exc,           \* exception in flight in the running call, NoExc if none
  temp_file,     \* process_single_file(): the local temp_file, 0 while unbound or None
  temps,         \* temporary WAV files that exist on env
  next_temp,     \* fresh-name counter of tempfile.NamedTemporaryFile
  self_model,    \* WhisperTranscriber.model of the live instance
  tr,            \* transcriber bookkeeping: loads, engine calls, last outcome
  result,        \* process_single_file(): the TranscriptionResult, NoResult before
  save_args,     \* save_transcription(): result, output_path, formats
  fmt_i,         \* save_transcription(): index of the loop over formats
  saved_files,   \* save_transcription(): the mapping being built
  fs,            \* output files on env: path -> content
  log,           \* logger records emitted so far
  trace          \* history of the steps taken (for ordering properties)

vars == <<args, env, pc, exit_code, audio_files, file_i, step, cur, exc,
          temp_file, temps, next_temp, self_model, tr, result, save_args,
          fmt_i, saved_files, fs, log, trace>>

-----------------------------------------------------------------------------
(* Bounds of the model. *)

\* longest list of requested formats handed to save_transcription
MaxFormats == 3
\* most entries in the input directory
MaxFiles == 3
\* most transcribe() calls made on one WhisperTranscriber instance
MaxCalls == 3

-----------------------------------------------------------------------------
(* Strings as character sequences. *)

\* code points of the characters the model uses (Python compares str by code point)
Ord(c) ==
  CASE c = "," -> 44 [] c = "." -> 46 [] c = "0" -> 48 [] c = "1" -> 49
    [] c = "2" -> 50 [] c = "3" -> 51 [] c = "5" -> 53 [] c = "6" -> 54
    [] c = "7" -> 55 [] c = "8" -> 56 [] c = "9" -> 57 [] c = ":" -> 58
    [] c = "J" -> 74 [] c = "M" -> 77 [] c = "R" -> 82 [] c = "S" -> 83
    [] c = "T" -> 84 [] c = "V" -> 86 [] c = "X" -> 88
    [] c = "4" -> 52
    [] c = "a" -> 97 [] c = "b" -> 98 [] c = "c" -> 99 [] c = "f" -> 102
    [] c = "g" -> 103 [] c = "j" -> 106 [] c = "l" -> 108
    [] c = "m" -> 109 [] c = "n" -> 110 [] c = "o" -> 111 [] c = "p" -> 112
    [] c = "r" -> 114 [] c = "s" -> 115 [] c = "t" -> 116 [] c = "v" -> 118
    [] c = "w" -> 119 [] c = "x" -> 120

\* str.lower() on one character
LowerChar(c) ==
  CASE c = "J" -> "j" [] c = "M" -> "m" [] c = "R" -> "r" [] c = "S" -> "s"
    [] c = "T" -> "t" [] c = "V" -> "v" [] c = "X" -> "x"
    [] OTHER -> c

\* str.lower()
lower(s) == [k \in 1..Len(s) |-> LowerChar(s[k])]

\* str.upper() is only used inside log messages; the model logs the name as given

\* s < t in Python's string order (lexicographic by code point)
StrLess(s, t) ==
  \E k \in 1..(Len(t)) :
    /\ \A j \in 1..(k - 1) : j <= Len(s) /\ s[j] = t[j]
    /\ k - 1 <= Len(s)
    /\ \/ k = Len(s) + 1
       \/ k <= Len(s) /\ Ord(s[k]) < Ord(t[k])

\* the elements of a set of distinct strings as a list (in increasing order)
RECURSIVE SortedSeq(_)
SortedSeq(S) ==
  IF S = {} THEN <<>>
  ELSE LET m == CHOOSE x \in S : \A y \in S \ {x} : StrLess(x, y)
       IN <<m>> \o SortedSeq(S \ {m})

\* list.insert keeping a sorted list sorted (equal elements stay in order)
RECURSIVE InsertSorted(_, _)
InsertSorted(x, xs) ==
  IF xs = <<>> THEN <<x>>
  ELSE IF StrLess(x, Head(xs)) THEN <<x>> \o xs
  ELSE <<Head(xs)>> \o InsertSorted(x, Tail(xs))

\* sorted(xs) of a list of strings
RECURSIVE sorted(_)
sorted(xs) ==
  IF xs = <<>> THEN <<>> ELSE InsertSorted(xs[Len(xs)], sorted(SubSeq(xs, 1, Len(xs) - 1)))

\* s.endswith(t)
EndsWith(s, t) ==
  Len(s) >= Len(t) /\ SubSeq(s, Len(s) - Len(t) + 1, Len(s)) = t

\* index of the last "." of s, 0 if there is none
LastDot(s) ==
  LET D == {k \in 1..Len(s) : s[k] = "."}
  IN IF D = {} THEN 0 ELSE CHOOSE k \in D : \A j \in D : j <= k

\* os.path.splitext(p): (root, ext). Leading dots of the name are not an
\* extension separator. Paths in the model are file names without a directory.
splitext(p) ==
  LET d == LastDot(p)
      leading == d > 0 /\ \A k \in 1..d : p[k] = "."
  IN IF d = 0 \/ leading
     THEN <<p, <<>>>>
     ELSE <<SubSeq(p, 1, d - 1), SubSeq(p, d, Len(p))>>

-----------------------------------------------------------------------------
(* Values shared by the operations. *)

None == "None"

txt == <<"t", "x", "t">>
srt == <<"s", "r", "t">>
vtt == <<"v", "t", "t">>
json == <<"j", "s", "o", "n">>

\* dict update: d[k] = v
DictPut(d, k, v) == [q \in DOMAIN d \cup {k} |-> IF q = k THEN v ELSE d[q]]

EmptyDict == [q \in {} |-> None]

\* exceptions are records: the Python type, the message prefix, and the type
\* of the exception that was being handled when it was raised (__context__)
Exc(type, msg, context) == [type |-> type, msg |-> msg, context |-> context]

NoExc == [type |-> "none", msg |-> "", context |-> "none"]

LogRec(level, msg, arg) == [level |-> level, msg |-> msg, arg |-> arg]

Event(op, arg, outcome) == [op |-> op, arg |-> arg, outcome |-> outcome]

-----------------------------------------------------------------------------
(* postprocessor.save_transcription *)

\* keys of the format_generators dict
format_generators == {txt, srt, vtt, json}

\* a membership test that forgets to lower-case the name
is_supported_case_sensitive(fmt) == fmt \in format_generators

\* the test "fmt.lower() not in format_generators", negated
is_supported(fmt) == lower(fmt) \in format_generators

\* f"{output_path}.{fmt.lower()}"
output_file_path(output_path, fmt) == output_path \o <<".">> \o lower(fmt)

\* format_generators[fmt.lower()](result): the rendering of one result in one
\* format, kept as the pair it is determined by
content_of(res, fmt) == [format |-> lower(fmt), of |-> res]

\* how "with open(file_path, 'w') as f: f.write(content)" can end:
\* it completes, open() raises, or write()/close() raises after the file was
\* opened (and so created or truncated)
WriteOutcomes == {"ok", "open_error", "write_error"}

\* the file system after one attempt to write content to path
fs_after_write(files, path, content, outcome) ==
  CASE outcome = "ok" ->
         DictPut(files, path, [status |-> "complete", content |-> content])
    [] outcome = "write_error" ->
         DictPut(files, path, [status |-> "partial", content |-> content])
    [] OTHER -> files

\* saved_files[fmt.lower()] = file_path is reached only when the with-block
\* completed; the except branch leaves the mapping alone
saved_after_write(saved, fmt, path, outcome) ==
  IF outcome = "ok" THEN DictPut(saved, lower(fmt), path) ELSE saved

\* one iteration of "for fmt in formats": an unsupported name is skipped with
\* a warning; a failed write is caught, logged, and the loop goes on
save_transcription_iter ==
  /\ step = "save"
  /\ fmt_i <= Len(save_args.formats)
  /\ LET fmt == save_args.formats[fmt_i]
         path == output_file_path(save_args.output_path, fmt)
         content == content_of(save_args.result, fmt)
     IN IF ~is_supported(fmt)
        THEN /\ log' = Append(log, LogRec("warning", "Unsupported output format", fmt))
             /\ trace' = Append(trace, Event("skip", fmt, "ok"))
             /\ fmt_i' = fmt_i + 1
             /\ UNCHANGED <<fs, saved_files, step, exc>>
        ELSE \E outcome \in WriteOutcomes :
             /\ fs' = fs_after_write(fs, path, content, outcome)
             /\ saved_files' = saved_after_write(saved_files, fmt, path, outcome)
             /\ log' = Append(log,
                  IF outcome = "ok"
                  THEN LogRec("info", "Saved output", fmt)
                  ELSE LogRec("error", "Failed to save output", fmt))
             /\ trace' = Append(trace, Event("write", path, outcome))
             /\ fmt_i' = fmt_i + 1
             /\ UNCHANGED <<step, exc>>
  /\ UNCHANGED <<args, env, pc, exit_code, audio_files, file_i, cur, temp_file,
                 temps, next_temp, self_model, tr, result, save_args>>

\* "return saved_files"
save_transcription_return ==
  /\ step = "save"
  /\ fmt_i > Len(save_args.formats)
  /\ step' = "save_returned"
  /\ trace' = Append(trace, Event("save_return", DOMAIN saved_files, "ok"))
  /\ UNCHANGED <<args, env, pc, exit_code, audio_files, file_i, cur, exc,
                 temp_file, temps, next_temp, self_model, tr, result, save_args,
                 fmt_i, saved_files, fs, log>>

-----------------------------------------------------------------------------
(* transcriber.WhisperTranscriber *)

\* what the external engine raises when whisper.load_model or model.transcribe fails
EngineError == Exc("RuntimeError", "engine", "none")

\* the handle whisper.load_model returns: a new object at every successful load
Handle(n) == [engine |-> n]

\* self.model = None
NoModel == Handle(0)

\* no TranscriptionResult (the call raised)
NoResult == [of |-> <<>>]

\* load_model without the "if self.model is None" test
load_model_always(m, load_ok, n) ==
  IF load_ok
  THEN [model |-> Handle(n + 1), loads |-> 1, raised |-> NoExc]
  ELSE [model |-> m, loads |-> 1, raised |-> EngineError]

\* load_model(self) on an instance whose model field is m, when n engine
\* loads have succeeded so far in the process: the new model field, the
\* number of whisper.load_model calls made, and what is raised
load_model(m, load_ok, n) ==
  IF m = NoModel
  THEN IF load_ok
       THEN [model |-> Handle(n + 1), loads |-> 1, raised |-> NoExc]
       ELSE [model |-> m, loads |-> 1, raised |-> EngineError]
  ELSE [model |-> m, loads |-> 0, raised |-> NoExc]

\* the values of task transcribe() accepts
ValidTasks == {"transcribe", "translate"}

\* transcribe with the task validated only after the model was loaded
transcribe_validates_late(m, audio, task, load_ok, run_ok, n) ==
  LET l == load_model(m, load_ok, n)
  IN IF l.raised # NoExc
     THEN [model |-> l.model, loads |-> l.loads, runs |-> 0, used |-> NoModel,
           raised |-> l.raised, value |-> NoResult]
     ELSE IF task \notin ValidTasks
     THEN [model |-> l.model, loads |-> l.loads, runs |-> 0, used |-> NoModel,
           raised |-> Exc("ValueError", "Invalid task", "none"), value |-> NoResult]
     ELSE [model |-> l.model, loads |-> l.loads, runs |-> 1, used |-> l.model,
           raised |-> IF run_ok THEN NoExc
                      ELSE Exc("ValueError", "Transcription failed", "RuntimeError"),
           value |-> IF run_ok THEN [of |-> audio] ELSE NoResult]

\* transcribe(self, audio, language, task) on an instance whose model field
\* is m: the new model field, the whisper.load_model and model.transcribe
\* calls made, the handle used, and what is raised or returned
transcribe(m, audio, task, load_ok, run_ok, n) ==
  IF task \notin ValidTasks
  THEN [model |-> m, loads |-> 0, runs |-> 0, used |-> NoModel,
        raised |-> Exc("ValueError", "Invalid task", "none"), value |-> NoResult]
  ELSE LET l == load_model(m, load_ok, n)
       IN IF l.raised # NoExc
          THEN \* load_model() is called outside the try block
               [model |-> l.model, loads |-> l.loads, runs |-> 0, used |-> NoModel,
                raised |-> l.raised, value |-> NoResult]
          ELSE IF run_ok
          THEN [model |-> l.model, loads |-> l.loads, runs |-> 1, used |-> l.model,
                raised |-> NoExc, value |-> [of |-> audio]]
          ELSE \* except Exception as e: raise ValueError(f"Transcription failed: {e}")
               [model |-> l.model, loads |-> l.loads, runs |-> 1, used |-> l.model,
                raised |-> Exc("ValueError", "Transcription failed", "RuntimeError"),
                value |-> NoResult]

\* the transcriber bookkeeping after a call that ended as r
tr_after(t, r) ==
  [calls |-> t.calls + 1,
   loads |-> t.loads + r.loads,
   load_oks |-> t.load_oks + (IF r.loads = 1 /\ r.model # NoModel THEN 1 ELSE 0),
   runs |-> t.runs + r.runs]

TrInit == [calls |-> 0, loads |-> 0, load_oks |-> 0, runs |-> 0]

\* WhisperTranscriber.__init__ (whisper importable, model_name valid)
transcriber_init ==
  /\ pc = "unit"
  /\ step = "construct"
  /\ self_model' = NoModel
  /\ step' = "ready"
  /\ trace' = Append(trace, Event("init", None, "ok"))
  /\ UNCHANGED <<args, env, pc, exit_code, audio_files, file_i, cur, exc,
                 temp_file, temps, next_temp, tr, result, save_args, fmt_i,
                 saved_files, fs, log>>

\* the task values callers pass: the two valid ones, a wrong case, another word
Tasks == {"transcribe", "translate", "Transcribe", "summarize"}

\* one transcribe() call on the instance
transcribe_call ==
  /\ pc = "unit"
  /\ step = "ready"
  /\ tr.calls < MaxCalls
  /\ \E task \in Tasks, load_ok \in BOOLEAN, run_ok \in BOOLEAN :
       LET r == transcribe(self_model, <<"a">>, task, load_ok, run_ok, tr.load_oks)
       IN /\ self_model' = r.model
          /\ tr' = tr_after(tr, r)
          /\ exc' = r.raised
          /\ result' = r.value
          /\ trace' = Append(trace,
               Event("transcribe", task,
                     [before |-> self_model, after |-> r.model, loads |-> r.loads,
                      runs |-> r.runs, used |-> r.used, raised |-> r.raised,
                      engine_failed |-> (r.loads = 1 /\ ~load_ok)
                                          \/ (r.runs = 1 /\ ~run_ok)]))
  /\ UNCHANGED <<args, env, pc, exit_code, audio_files, file_i, step, cur,
                 temp_file, temps, next_temp, save_args, fmt_i, saved_files,
                 fs, log>>

InitTranscriber ==
  /\ args = None /\ env = None /\ pc = "unit" /\ exit_code = "none"
  /\ audio_files = <<>> /\ file_i = 0 /\ cur = <<>> /\ exc = NoExc
  /\ temp_file = 0 /\ temps = {} /\ next_temp = 1
  /\ self_model = NoModel /\ tr = TrInit /\ result = NoResult
  /\ step = "construct"
  /\ save_args = [result |-> NoResult, output_path |-> <<>>, formats |-> <<>>]
  /\ fmt_i = 0 /\ saved_files = EmptyDict
  /\ fs = EmptyDict /\ log = <<>> /\ trace = <<>>

NextTranscriber == transcriber_init \/ transcribe_call

SpecTranscriber == InitTranscriber /\ [][NextTranscriber]_vars

-----------------------------------------------------------------------------
(* save_transcription called on its own, on every short list of requested *)
(* names, with or without an older output file already on env.           *)

BoundedSeqs(S, n) == UNION {[1..k -> S] : k \in 0..n}

\* requested names: lower, upper and mixed case of recognized names and an
\* unrecognized name
RequestNames ==
  {txt, <<"T", "X", "T">>, srt, <<"V", "t", "t">>, <<"J", "s", "o", "n">>,
   <<"x", "m", "l">>}

UnitOutputPath == <<"o">>

OldFile == [status |-> "complete", content |-> [format |-> txt, of |-> [of |-> <<"o", "l", "d">>]]]

InitSave ==
  /\ args = None /\ env = None /\ pc = "unit" /\ exit_code = "none"
  /\ audio_files = <<>> /\ file_i = 0 /\ cur = <<>> /\ exc = NoExc
  /\ temp_file = 0 /\ temps = {} /\ next_temp = 1
  /\ self_model = NoModel /\ tr = TrInit /\ result = NoResult
  /\ step = "save"
  /\ save_args \in [result : {[of |-> <<"r">>]}, output_path : {UnitOutputPath},
                    formats : BoundedSeqs(RequestNames, MaxFormats)]
  /\ fmt_i = 1
  /\ saved_files = EmptyDict
  /\ fs \in {EmptyDict, DictPut(EmptyDict, UnitOutputPath \o <<".">> \o txt, OldFile)}
  /\ log = <<>>
  /\ trace = <<>>

NextSave == save_transcription_iter \/ save_transcription_return

SpecSave == InitSave /\ [][NextSave]_vars

-----------------------------------------------------------------------------
(* Properties of save_transcription (checked under SpecSave). *)

\* the key a requested name stands for, written out name by name: the four
\* recognized names in any letter case, the empty string for every other name
ExpectedKey(name) ==
  CASE name \in {txt, <<"T", "X", "T">>} -> txt
    [] name = srt -> srt
    [] name = <<"V", "t", "t">> -> vtt
    [] name = <<"J", "s", "o", "n">> -> json
    [] OTHER -> <<>>

ExpectedPath(key) == save_args.output_path \o <<".">> \o key

WriteEvents == SelectSeq(trace, LAMBDA e : e.op = "write")

RecognizedPositions ==
  {k \in 1..Len(save_args.formats) : ExpectedKey(save_args.formats[k]) # <<>>}

\* the file at path p is complete on env and holds the result of this call
CompleteByThisCall(p) ==
  /\ p \in DOMAIN fs
  /\ fs[p].status = "complete"
  /\ fs[p].content.of = save_args.result

\* C2: a failed write never aborts save_transcription: the call returns
\* normally, every recognized requested format is attempted, and the returned
\* mapping holds exactly the recognized formats whose file is completely
\* written by this call, each mapped to its path.
C2_ReturnsExactlyTheWrittenFormats ==
  step = "save_returned" =>
       /\ exc = NoExc
       /\ Len(WriteEvents) = Cardinality(RecognizedPositions)
       /\ \A key \in format_generators :
            key \in DOMAIN saved_files <=> CompleteByThisCall(ExpectedPath(key))
       /\ \A key \in DOMAIN saved_files : saved_files[key] = ExpectedPath(key)

\* the part of C2 the code does keep: a format is in the mapping exactly when
\* one of its writes completed
C2_KeyedIffSomeWriteCompleted ==
  step = "save_returned" =>
       /\ Len(WriteEvents) = Cardinality(RecognizedPositions)
       /\ \A key \in format_generators :
            key \in DOMAIN saved_files <=>
              \E k \in 1..Len(WriteEvents) :
                /\ WriteEvents[k].arg = ExpectedPath(key)
                /\ WriteEvents[k].outcome = "ok"

\* C4: a requested name is recognized exactly when its lower-cased form is
\* txt, srt, vtt or json. The k-th handled name is skipped with one warning
\* (no file, no key, no exception) when unrecognized, and otherwise written
\* to "<output_path>.<lower-cased name>" and, once written, keyed by the
\* lower-cased name, whatever other names are requested.
C4_RecognizedIffLowerCasedKnown ==
  /\ exc = NoExc
  /\ Len(trace) >= fmt_i - 1
  /\ \A k \in 1..(fmt_i - 1) :
       LET name == save_args.formats[k]
           key == ExpectedKey(name)
       IN IF key = <<>>
          THEN trace[k] = Event("skip", name, "ok")
          ELSE /\ trace[k].op = "write"
               /\ trace[k].arg = ExpectedPath(key)
               /\ trace[k].outcome = "ok" =>
                    /\ key \in DOMAIN saved_files
                    /\ saved_files[key] = ExpectedPath(key)
                    /\ ExpectedPath(key) \in DOMAIN fs
  /\ Len(SelectSeq(log, LAMBDA r : r.level = "warning"))
       = Cardinality({k \in 1..(fmt_i - 1) : ExpectedKey(save_args.formats[k]) = <<>>})
  /\ \A r \in {log[k] : k \in 1..Len(log)} :
       r.level = "warning" => ExpectedKey(r.arg) = <<>>
  /\ DOMAIN saved_files \subseteq {txt, srt, vtt, json}
  /\ \A p \in DOMAIN fs :
       \/ fs[p] = OldFile
       \/ \E k \in 1..(fmt_i - 1) :
            /\ ExpectedKey(save_args.formats[k]) # <<>>
            /\ p = ExpectedPath(ExpectedKey(save_args.formats[k]))

\* an upper-case recognized name was written and keyed in lower case in a
\* request that also held an unrecognized name
C4_Witness ==
  /\ step = "save_returned"
  /\ save_args.formats = << <<"x", "m", "l">>, <<"T", "X", "T">>, <<"V", "t", "t">> >>
  /\ DOMAIN saved_files = {txt, vtt}
  /\ saved_files[txt] = <<"o", ".", "t", "x", "t">>
  /\ Len(log) = 3 /\ log[1].level = "warning"

-----------------------------------------------------------------------------
(* Properties of WhisperTranscriber (checked under SpecTranscriber). *)

TranscribeEvents == SelectSeq(trace, LAMBDA e : e.op = "transcribe")

\* the call recorded as ev made a whisper.load_model call that returned
LoadSucceeded(ev) == ev.outcome.loads = 1 /\ ev.outcome.after # NoModel

\* C5: constructing the instance loads nothing; the first transcribe call
\* that gets past the task check calls the engine loader, as does every such
\* call until a load succeeds; after a successful load no call loads again
\* and every later engine run uses the handle of that one load.
C5_EngineLoadedLazilyAndOnce ==
  LET E == TranscribeEvents
  IN /\ E = <<>> => self_model = NoModel /\ tr.loads = 0
     /\ tr.load_oks <= 1
     /\ \A k \in 1..Len(E) :
          LET e == E[k].outcome
              earlier == {j \in 1..(k - 1) : LoadSucceeded(E[j])}
          IN /\ (E[k].arg \in {"transcribe", "translate"} /\ earlier = {})
                  => e.loads = 1
             /\ \A j \in earlier :
                  /\ e.loads = 0
                  /\ e.before = E[j].outcome.after
                  /\ e.after = e.before
                  /\ e.runs = 1 => e.used = E[j].outcome.after

\* three calls: a failed load, a successful load, then a call that reuses it
C5_Witness ==
  LET E == TranscribeEvents
  IN /\ Len(E) = 3
     /\ E[1].outcome.loads = 1 /\ E[1].outcome.after = NoModel
     /\ LoadSucceeded(E[2]) /\ E[2].outcome.runs = 1
     /\ E[3].outcome.loads = 0 /\ E[3].outcome.runs = 1
     /\ E[3].outcome.used = E[2].outcome.after
     /\ tr.loads = 2 /\ tr.load_oks = 1

\* C6: every failure of the external engine inside transcribe(), at load
\* time or at run time, reaches the caller as the one wrapping error
\* ("Transcription failed") that carries the engine's exception.
C6_EngineFailuresAreWrapped ==
  \A k \in 1..Len(TranscribeEvents) :
    LET e == TranscribeEvents[k].outcome
    IN e.engine_failed =>
         /\ e.raised.type = "ValueError"
         /\ e.raised.msg = "Transcription failed"
         /\ e.raised.context = "RuntimeError"

\* the part of C6 the code keeps: a failure of the engine run is wrapped
C6_RunFailuresAreWrapped ==
  \A k \in 1..Len(TranscribeEvents) :
    LET e == TranscribeEvents[k].outcome
    IN (e.engine_failed /\ e.runs = 1) =>
         /\ e.raised.type = "ValueError"
         /\ e.raised.msg = "Transcription failed"
         /\ e.raised.context = "RuntimeError"

\* C7: a transcribe call whose task is neither "transcribe" nor "translate"
\* raises the invalid-task error without calling the engine loader or the
\* engine, and leaves the instance's model field as it was.
C7_InvalidTaskRejectedBeforeEngine ==
  \A k \in 1..Len(TranscribeEvents) :
    LET ev == TranscribeEvents[k]
        e == ev.outcome
    IN ev.arg \notin {"transcribe", "translate"} =>
         /\ e.raised = [type |-> "ValueError", msg |-> "Invalid task", context |-> "none"]
         /\ e.loads = 0
         /\ e.runs = 0
         /\ e.after = e.before

\* an invalid task rejected on a fresh instance and again once the engine is loaded
C7_Witness ==
  LET E == TranscribeEvents
  IN /\ Len(E) = 3
     /\ E[1].arg = "summarize" /\ E[1].outcome.before = NoModel
     /\ LoadSucceeded(E[2])
     /\ E[3].arg = "Transcribe" /\ E[3].outcome.before = Handle(1)
     /\ self_model = Handle(1) /\ tr.loads = 1 /\ tr.runs = 1

-----------------------------------------------------------------------------
(* cli.py: find_audio_files, get_output_path; audio.py: cleanup_temp_file *)

\* the suffixes of the glob patterns "*.wav", "*.mp3", ... in list order
extensions ==
  << <<".", "w", "a", "v">>, <<".", "m", "p", "3">>, <<".", "f", "l", "a", "c">>,
     <<".", "a", "a", "c">>, <<".", "o", "g", "g">>, <<".", "m", "4", "a">> >>

\* glob.glob(os.path.join(input_path, "*" + ext)): the entries that end with
\* ext; "*" does not match a name that starts with "."
glob_ext(entries, ext) ==
  SortedSeq({n \in entries : EndsWith(n, ext) /\ n[1] # "."})

\* audio_files.extend(...) for each pattern in turn
RECURSIVE glob_all(_, _)
glob_all(entries, k) ==
  IF k > Len(extensions) THEN <<>>
  ELSE glob_ext(entries, extensions[k]) \o glob_all(entries, k + 1)

\* find_audio_files(input_path, recursive) over the entries of the directory
find_audio_files(entries) == sorted(glob_all(entries, 1))

\* get_output_path(input_path, output_path); None and "" are both <<>>
get_output_path(input_path, output_path) ==
  IF output_path # <<>> THEN splitext(output_path)[1] ELSE splitext(input_path)[1]

\* "if temp_file_path and os.path.exists(temp_file_path)"; path 0 is None
unlink_attempted(existing, temp_file_path) ==
  temp_file_path # 0 /\ temp_file_path \in existing

\* the temporary files left by cleanup_temp_file(temp_file_path); path 0 is
\* None; os.unlink may raise, which is caught and logged
cleanup_temp_file(existing, temp_file_path, unlink_ok) ==
  IF unlink_attempted(existing, temp_file_path) /\ unlink_ok
  THEN existing \ {temp_file_path}
  ELSE existing

-----------------------------------------------------------------------------
(* cli.main: the command line and what the input path is on disk *)

\* names that may be found in the input directory
FileUniverse ==
  { <<"a", ".", "m", "p", "3">>, <<"a", ".", "w", "a", "v">>,
    <<"b", ".", "w", "a", "v">>, <<"n", ".", "t", "x", "t">> }

\* the input path of single-file mode
SingleInput == <<"a", ".", "w", "a", "v">>

\* --formats after split(",") and strip(): never an empty list
CliFormats ==
  { <<txt>>, << <<"S", "R", "T">>, <<"x", "m", "l">> >>, <<txt, json>> }

\* --output: absent, or a path with an extension
CliOutputs == { <<>>, <<"o", ".", "x">> }

InitCli ==
  /\ args \in [batch : BOOLEAN, formats : CliFormats, task : {"transcribe"},
               output : CliOutputs]
  /\ env \in [kind : {"missing"}, entries : {{}}, whisper : {TRUE}]
              \cup [kind : {"file"}, entries : {{SingleInput}}, whisper : BOOLEAN]
              \cup [kind : {"dir"},
                    entries : {E \in SUBSET FileUniverse : Cardinality(E) <= MaxFiles},
                    whisper : BOOLEAN]
  /\ pc = "start" /\ exit_code = "none"
  /\ audio_files = <<>> /\ file_i = 0 /\ step = "idle" /\ cur = <<>>
  /\ exc = NoExc /\ temp_file = 0 /\ temps = {} /\ next_temp = 1
  /\ self_model = NoModel /\ tr = TrInit /\ result = NoResult
  /\ save_args = [result |-> NoResult, output_path |-> <<>>, formats |-> <<>>]
  /\ fmt_i = 0 /\ saved_files = EmptyDict
  /\ fs = EmptyDict /\ log = <<>> /\ trace = <<>>

\* entering process_single_file(input_path): logger.info("Processing file")
enter_process_single_file(input_path) ==
  /\ cur' = input_path
  /\ step' = "load"
  /\ exc' = NoExc /\ temp_file' = 0 /\ result' = NoResult
  /\ log' = Append(log, LogRec("info", "Processing file", input_path))
  /\ trace' = <<>>

\* main(): os.path.isfile(args.input) holds
main_single ==
  /\ pc = "start" /\ env.kind = "file"
  /\ pc' = "single"
  /\ enter_process_single_file(SingleInput)
  /\ UNCHANGED <<args, env, exit_code, audio_files, file_i, temps, next_temp,
                 self_model, tr, save_args, fmt_i, saved_files, fs>>

\* main(): os.path.isdir(args.input) and args.batch
main_batch ==
  /\ pc = "start" /\ env.kind = "dir" /\ args.batch
  /\ LET found == find_audio_files(env.entries)
     IN /\ audio_files' = found
        /\ IF found = <<>>
           THEN /\ log' = Append(log, LogRec("error", "No audio files found", <<>>))
                /\ exit_code' = "1" /\ pc' = "returned" /\ file_i' = 0
           ELSE /\ log' = Append(log, LogRec("info", "Found audio files", <<>>))
                /\ pc' = "batch" /\ file_i' = 1 /\ UNCHANGED exit_code
  /\ UNCHANGED <<args, env, step, cur, exc, temp_file, temps, next_temp,
                 self_model, tr, result, save_args, fmt_i, saved_files, fs, trace>>

\* main(): the else branch
main_reject ==
  /\ pc = "start"
  /\ env.kind # "file" /\ ~(env.kind = "dir" /\ args.batch)
  /\ log' = Append(log,
       IF env.kind = "dir" /\ ~args.batch
       THEN LogRec("error", "Input is a directory but --batch flag not set", <<>>)
       ELSE LogRec("error", "Input not found", <<>>))
  /\ exit_code' = "1" /\ pc' = "returned"
  /\ UNCHANGED <<args, env, audio_files, file_i, step, cur, exc, temp_file,
                 temps, next_temp, self_model, tr, result, save_args, fmt_i,
                 saved_files, fs, trace>>

\* main(): the next iteration of "for audio_file in audio_files"
batch_next ==
  /\ pc = "batch" /\ step = "idle" /\ file_i <= Len(audio_files)
  /\ enter_process_single_file(audio_files[file_i])
  /\ UNCHANGED <<args, env, pc, exit_code, audio_files, file_i, temps,
                 next_temp, self_model, tr, save_args, fmt_i, saved_files, fs>>

\* a main() that returns 1 after a batch in which a file failed
batch_exit_code_counting_failures(failures) == IF failures = 0 THEN "0" ELSE "1"

\* the value main() returns after the batch loop: "return 0" at the end of
\* the try block, however many files failed
batch_exit_code(failures) == "0"

\* main(): the loop is over: "Batch processing completed", return 0
batch_done ==
  /\ pc = "batch" /\ step = "idle" /\ file_i > Len(audio_files)
  /\ log' = Append(log, LogRec("info", "Batch processing completed", <<>>))
  /\ exit_code' = batch_exit_code(
                     Len(SelectSeq(log, LAMBDA r : r.msg = "Failed to process")))
  /\ pc' = "returned"
  /\ UNCHANGED <<args, env, audio_files, file_i, step, cur, exc, temp_file,
                 temps, next_temp, self_model, tr, result, save_args, fmt_i,
                 saved_files, fs, trace>>

-----------------------------------------------------------------------------
(* cli.process_single_file and audio.process_audio_file, step by step *)

\* a step that ended: "ok", or the type of the exception it raised
Outcome(ok, type) == IF ok THEN "ok" ELSE type

\* a step of process_audio_file: the call "audio_array, temp_file =
\* process_audio_file(input_path)" stands before the try block, so when the
\* step raises nothing of process_single_file runs any more
prepare_step(at, op, types, next) ==
  /\ pc \in {"single", "batch"} /\ step = at
  /\ \E o \in {"ok"} \cup types :
       /\ trace' = Append(trace, Event(op, cur, o))
       /\ IF o = "ok"
          THEN step' = next /\ UNCHANGED exc
          ELSE step' = "raised" /\ exc' = Exc(o, op, "none")

\* audio.load_audio: the path (and its fallback) is missing, or the codec fails
load_audio ==
  /\ prepare_step("load", "load", {"FileNotFoundError", "ValueError"}, "normalize")
  /\ UNCHANGED <<args, env, pc, exit_code, audio_files, file_i, cur, temp_file,
                 temps, next_temp, self_model, tr, result, save_args, fmt_i,
                 saved_files, fs, log>>

\* audio.preprocess_audio: set_channels / set_frame_rate of the codec library
preprocess_audio ==
  /\ prepare_step("normalize", "normalize", {"CodecError"}, "temp_create")
  /\ UNCHANGED <<args, env, pc, exit_code, audio_files, file_i, cur, temp_file,
                 temps, next_temp, self_model, tr, result, save_args, fmt_i,
                 saved_files, fs, log>>

\* audio.save_temp_audio, first half: NamedTemporaryFile(suffix=".wav",
\* delete=False) creates a new file that stays on disk after close()
save_temp_audio_create ==
  /\ pc \in {"single", "batch"} /\ step = "temp_create"
  /\ \E ok \in BOOLEAN :
       /\ trace' = Append(trace, Event("temp_create", next_temp, Outcome(ok, "OSError")))
       /\ IF ok
          THEN /\ temps' = temps \cup {next_temp}
               /\ next_temp' = next_temp + 1
               /\ step' = "export" /\ UNCHANGED exc
          ELSE /\ step' = "raised"
               /\ exc' = Exc("OSError", "temp_create", "none")
               /\ UNCHANGED <<temps, next_temp>>
  /\ UNCHANGED <<args, env, pc, exit_code, audio_files, file_i, cur, temp_file,
                 self_model, tr, result, save_args, fmt_i, saved_files, fs, log>>

\* audio.save_temp_audio, second half: audio.export(temp_file.name, format="wav")
save_temp_audio_export ==
  /\ prepare_step("export", "export", {"CodecError"}, "samples")
  /\ UNCHANGED <<args, env, pc, exit_code, audio_files, file_i, cur, temp_file,
                 temps, next_temp, self_model, tr, result, save_args, fmt_i,
                 saved_files, fs, log>>

\* audio.get_audio_array, then process_audio_file returns and
\* process_single_file binds temp_file to the path just created
get_audio_array ==
  /\ pc \in {"single", "batch"} /\ step = "samples"
  /\ \E ok \in BOOLEAN :
       /\ trace' = Append(trace, Event("samples", cur, Outcome(ok, "CodecError")))
       /\ IF ok
          THEN step' = "construct" /\ temp_file' = next_temp - 1 /\ UNCHANGED exc
          ELSE /\ step' = "raised"
               /\ exc' = Exc("CodecError", "samples", "none")
               /\ UNCHANGED temp_file
  /\ UNCHANGED <<args, env, pc, exit_code, audio_files, file_i, cur, temps,
                 next_temp, self_model, tr, result, save_args, fmt_i,
                 saved_files, fs, log>>

\* a transcriber kept from one call to the next, with the engine handle it holds
constructed_model_kept(previous) == previous

\* the model field of the instance WhisperTranscriber(model_name, device)
\* makes: __init__ sets self.model = None, whatever an instance made before
\* this one holds
constructed_model(previous) == NoModel

\* WhisperTranscriber(model_name, device) inside the try block: a new
\* instance for every call; ImportError when whisper is not installed
cli_construct ==
  /\ pc \in {"single", "batch"} /\ step = "construct"
  /\ trace' = Append(trace, Event("construct", cur, Outcome(env.whisper, "ImportError")))
  /\ IF env.whisper
     THEN self_model' = constructed_model(self_model) /\ step' = "transcribe"
          /\ UNCHANGED exc
     ELSE /\ step' = "finally" /\ exc' = Exc("ImportError", "construct", "none")
          /\ UNCHANGED self_model
  /\ UNCHANGED <<args, env, pc, exit_code, audio_files, file_i, cur, temp_file,
                 temps, next_temp, tr, result, save_args, fmt_i, saved_files,
                 fs, log>>

\* going on to the output files although transcribe() raised
after_transcribe_ignores_error(raised) == "output_path"

\* where process_single_file goes after transcribe(): on to the output
\* files, or to the finally block when it raised
after_transcribe(raised) == IF raised = NoExc THEN "output_path" ELSE "finally"

\* transcriber.transcribe(audio_array, language=lang_param, task=task)
cli_transcribe ==
  /\ pc \in {"single", "batch"} /\ step = "transcribe"
  /\ \E load_ok \in BOOLEAN, run_ok \in BOOLEAN :
       LET r == transcribe(self_model, cur, args.task, load_ok, run_ok, tr.load_oks)
       IN /\ self_model' = r.model
          /\ tr' = tr_after(tr, r)
          /\ trace' = Append(trace,
               Event("transcribe", args.task,
                     [before |-> self_model, after |-> r.model, loads |-> r.loads,
                      runs |-> r.runs, used |-> r.used, raised |-> r.raised,
                      engine_failed |-> (r.loads = 1 /\ ~load_ok)
                                          \/ (r.runs = 1 /\ ~run_ok)]))
          /\ step' = after_transcribe(r.raised)
          /\ IF r.raised = NoExc
             THEN result' = r.value /\ UNCHANGED exc
             ELSE exc' = r.raised /\ UNCHANGED result
  /\ UNCHANGED <<args, env, pc, exit_code, audio_files, file_i, cur, temp_file,
                 temps, next_temp, save_args, fmt_i, saved_files, fs, log>>

\* a batch loop that hands --output on to every file
output_path_arg_from_args == args.output

\* the output_path argument main() passes: args.output for the single file,
\* None for every file of a batch
output_path_arg == IF pc = "batch" THEN <<>> ELSE args.output

\* final_output_path = get_output_path(...); save_transcription is entered
call_save_transcription ==
  /\ pc \in {"single", "batch"} /\ step = "output_path"
  /\ save_args' = [result |-> result,
                   output_path |-> get_output_path(cur, output_path_arg),
                   formats |-> args.formats]
  /\ fmt_i' = 1
  /\ saved_files' = EmptyDict
  /\ step' = "save"
  /\ UNCHANGED <<args, env, pc, exit_code, audio_files, file_i, cur, exc,
                 temp_file, temps, next_temp, self_model, tr, result, fs, log,
                 trace>>

\* the finally block: cleanup_temp_file(temp_file), then the call returns
\* the mapping or lets the exception go on
process_single_file_finally ==
  /\ pc \in {"single", "batch"} /\ step \in {"finally", "save_returned"}
  /\ \E unlink_ok \in (IF unlink_attempted(temps, temp_file) THEN BOOLEAN ELSE {TRUE}) :
       /\ temps' = cleanup_temp_file(temps, temp_file, unlink_ok)
       /\ trace' = Append(trace, Event("cleanup", temp_file, Outcome(unlink_ok, "OSError")))
       /\ log' = IF unlink_ok THEN log
                 ELSE Append(log, LogRec("warning", "Failed to remove temporary file", <<>>))
  /\ step' = IF exc = NoExc THEN "returned" ELSE "raised"
  /\ UNCHANGED <<args, env, pc, exit_code, audio_files, file_i, cur, exc,
                 temp_file, next_temp, self_model, tr, result, save_args, fmt_i,
                 saved_files, fs>>

\* whether "except Exception" catches an exception of this type
is_Exception(type) == type # "KeyboardInterrupt"

\* main() returning 0 whatever happened
single_exit_code_always_zero(raised) == "0"

\* the value main() returns after the single file: "return 0" at the end of
\* the try block, "return 1" in "except Exception"
single_exit_code(raised) == IF raised = NoExc THEN "0" ELSE "1"

\* main(): how the call of process_single_file for the single file ends:
\* "Transcription saved to", return 0; or "except Exception", return 1
single_end ==
  /\ pc = "single" /\ step \in {"returned", "raised"}
  /\ IF step = "returned"
     THEN /\ log' = Append(log, LogRec("info", "Transcription saved to", cur))
          /\ exit_code' = single_exit_code(exc) /\ pc' = "returned"
     ELSE IF is_Exception(exc.type)
     THEN /\ log' = Append(log, LogRec("error", "Error", cur))
          /\ exit_code' = single_exit_code(exc) /\ pc' = "returned"
     ELSE /\ pc' = "killed" /\ UNCHANGED <<log, exit_code>>
  /\ step' = "idle"
  /\ UNCHANGED <<args, env, audio_files, file_i, cur, exc, temp_file, temps,
                 next_temp, self_model, tr, result, save_args, fmt_i,
                 saved_files, fs, trace>>

\* the batch loop after an exception of one file: go on with the next file
batch_after_error_abort(i, n) == n + 1

batch_after_error(i, n) == i + 1

\* main(): how one iteration of the batch loop ends: the inner
\* "except Exception" logs "Failed to process" and the loop goes on
batch_end ==
  /\ pc = "batch" /\ step \in {"returned", "raised"}
  /\ IF step = "returned"
     THEN file_i' = file_i + 1 /\ UNCHANGED <<log, pc>>
     ELSE IF is_Exception(exc.type)
     THEN /\ log' = Append(log, LogRec("error", "Failed to process", cur))
          /\ file_i' = batch_after_error(file_i, Len(audio_files))
          /\ UNCHANGED pc
     ELSE /\ pc' = "killed" /\ UNCHANGED <<log, file_i>>
  /\ step' = "idle"
  /\ UNCHANGED <<args, env, exit_code, audio_files, cur, exc, temp_file, temps,
                 next_temp, self_model, tr, result, save_args, fmt_i,
                 saved_files, fs, trace>>

\* the steps of process_single_file that run inside its try block
TrySteps == {"construct", "transcribe", "output_path", "save", "save_returned"}

\* the user interrupts the process (KeyboardInterrupt) between two steps:
\* inside the try block the finally clause still runs; the exception is not
\* an Exception, so neither handler of main() catches it
interrupt ==
  /\ pc \in {"single", "batch"}
  /\ step \notin {"finally", "returned", "raised"}
  /\ IF step \in TrySteps
     THEN /\ exc' = Exc("KeyboardInterrupt", step, "none")
          /\ step' = "finally"
          /\ UNCHANGED pc
     ELSE /\ pc' = "killed"
          /\ exc' = Exc("KeyboardInterrupt", step, "none")
          /\ UNCHANGED step
  /\ trace' = Append(trace, Event("interrupt", cur, "KeyboardInterrupt"))
  /\ UNCHANGED <<args, env, exit_code, audio_files, file_i, cur, temp_file,
                 temps, next_temp, self_model, tr, result, save_args, fmt_i,
                 saved_files, fs, log>>

NextCli ==
  \/ main_single \/ main_batch \/ main_reject \/ batch_next \/ batch_done
  \/ load_audio \/ preprocess_audio \/ save_temp_audio_create
  \/ save_temp_audio_export \/ get_audio_array \/ cli_construct
  \/ cli_transcribe \/ call_save_transcription \/ save_transcription_iter
  \/ save_transcription_return \/ process_single_file_finally
  \/ single_end \/ batch_end \/ interrupt

Spec == InitCli /\ [][NextCli]_vars

-----------------------------------------------------------------------------
(* Properties of the command line run (checked under Spec). *)

\* the files whose processing was begun, in order ("Processing file: ...")
Processed ==
  LET P == SelectSeq(log, LAMBDA r : r.msg = "Processing file")
  IN [k \in 1..Len(P) |-> P[k].arg]

\* the audio files of the directory in sorted order, written out by hand
ExpectedAudio ==
  SelectSeq(<< <<"a", ".", "m", "p", "3">>, <<"a", ".", "w", "a", "v">>,
               <<"b", ".", "w", "a", "v">> >>,
            LAMBDA n : n \in env.entries)

\* the temporary files the running call has created
CreatedByCall ==
  {trace[k].arg : k \in {j \in 1..Len(trace) :
                           trace[j].op = "temp_create" /\ trace[j].outcome = "ok"}}

\* C1: whenever a call of process_single_file has ended, by return or by an
\* exception raised at any step, no temporary WAV file created by that call
\* is left on disk.
C1_NoTempFileLeftAtExit ==
  step \in {"returned", "raised"} => CreatedByCall \cap temps = {}

\* the part of C1 the code keeps: when the finally clause has run and the
\* unlink did not fail, the call's temporary file is gone
C1_NoTempFileLeftAfterFinally ==
  \A k \in 1..Len(trace) :
    (trace[k].op = "cleanup" /\ trace[k].outcome = "ok") => CreatedByCall \cap temps = {}

C3_Progress ==
  (env.kind = "dir" /\ args.batch) =>
    /\ Len(Processed) <= Len(ExpectedAudio)
    /\ Processed = SubSeq(ExpectedAudio, 1, Len(Processed))
    /\ (pc = "returned" /\ ExpectedAudio # <<>>) =>
         /\ Processed = ExpectedAudio
         /\ exit_code = "0"
    /\ (pc = "batch" /\ step = "idle") =>
         Len(Processed) = file_i - 1
    /\ \A k \in 1..Len(log) :
         log[k].msg = "Failed to process" =>
           \E j \in 1..Len(Processed) : Processed[j] = log[k].arg

\* a call of the batch that ended with an error is logged and the loop
\* goes on behind that file
C3_ErrorCaught ==
  (pc = "batch" /\ step = "raised" /\ exc.type # "KeyboardInterrupt") =>
    /\ pc' = "batch" /\ step' = "idle"
    /\ file_i' = file_i + 1
    /\ log' = Append(log, [level |-> "error", msg |-> "Failed to process", arg |-> cur])
    /\ exit_code' = exit_code

\* C3: in batch mode an error of one file is caught and logged and the loop
\* goes on: the files begun so far are always the first files of the sorted
\* list of audio files, each once and in order, and when main() returns
\* after a non-empty batch every one of them was begun, whichever failed.
C3_BatchAttemptsEveryFileInOrder == [](C3_Progress) /\ [][C3_ErrorCaught]_vars

\* a batch of three files returned although the first and the second failed
C3_Witness ==
  /\ pc = "returned" /\ exit_code = "0"
  /\ Len(Processed) = 3
  /\ Len(SelectSeq(log, LAMBDA r : r.msg = "Failed to process")) = 2
  /\ \E k \in 1..Len(log) :
       log[k] = LogRec("error", "Failed to process", <<"a", ".", "m", "p", "3">>)
  /\ <<"b", ".", "t", "x", "t">> \in DOMAIN fs


\* the running (or last) call of process_single_file raised an exception:
\* one of its steps outside save_transcription failed
CallRaised ==
  \E k \in 1..Len(trace) :
    \/ /\ trace[k].op \in {"load", "normalize", "temp_create", "export",
                           "samples", "construct"}
       /\ trace[k].outcome # "ok"
    \/ /\ trace[k].op = "transcribe"
       /\ trace[k].outcome.raised.type # "none"

\* nothing of process_single_file has run and no output file exists
NothingProcessed ==
  /\ Processed = <<>> /\ trace = <<>>
  /\ tr.calls = 0 /\ tr.loads = 0 /\ tr.runs = 0
  /\ temps = {} /\ next_temp = 1
  /\ fs = EmptyDict

\* main() has to give up before any file: the input is missing, a directory
\* without --batch, or a batch directory without audio files
RejectedInput ==
  \/ env.kind = "missing"
  \/ env.kind = "dir" /\ ~args.batch
  \/ /\ env.kind = "dir" /\ args.batch
     /\ env.entries \cap { <<"a", ".", "m", "p", "3">>, <<"a", ".", "w", "a", "v">>,
                           <<"b", ".", "w", "a", "v">> } = {}

\* C8: main() returns 1 when the input is missing, is a directory without
\* --batch, or is a batch directory without audio files, and then nothing
\* was processed or written; for a single file it returns 1 when the
\* processing raised an exception and 0 when it did not.
C8_ExitCodes ==
  /\ exit_code # "none" <=> pc = "returned"
  /\ RejectedInput =>
       /\ pc \in {"start", "returned"}
       /\ pc = "returned" => exit_code = "1"
       /\ NothingProcessed
  /\ (env.kind = "file" /\ pc = "returned") =>
       /\ Processed = << <<"a", ".", "w", "a", "v">> >>
       /\ CallRaised => exit_code = "1"
       /\ ~CallRaised =>
            /\ exit_code = "0"
            /\ \E k \in 1..Len(trace) : trace[k].op = "save_return"

\* the single file failed in the engine run and main() returned 1
C8_Witness ==
  /\ env.kind = "file" /\ pc = "returned" /\ exit_code = "1"
  /\ exc.msg = "Transcription failed"
  /\ fs = EmptyDict


\* the steps of the running call, without the interrupts
Steps == SelectSeq(trace, LAMBDA e : e.op # "interrupt")

\* the place of a step in the order load, normalize, temp-file creation and
\* export, sample extraction, construction, transcribe, (format and) write,
\* return of the mapping, temp-file delete
Rank(op) ==
  CASE op = "load" -> 1 [] op = "normalize" -> 2 [] op = "temp_create" -> 3
    [] op = "export" -> 4 [] op = "samples" -> 5 [] op = "construct" -> 6
    [] op = "transcribe" -> 7 [] op \in {"skip", "write"} -> 8
    [] op = "save_return" -> 9 [] op = "cleanup" -> 10

\* the step did what it was for (a write that failed still was attempted)
StepOk(e) ==
  IF e.op = "transcribe" THEN e.outcome.raised.type = "none"
  ELSE IF e.op \in {"skip", "write", "save_return"} THEN TRUE
  ELSE e.outcome = "ok"

TranscribedAt(k) ==
  /\ Steps[k].op = "transcribe" /\ Steps[k].outcome.runs = 1
  /\ Steps[k].outcome.raised.type = "none"

C9_StepOrder ==
  /\ Steps # <<>> => Steps[1].op = "load"
  /\ \A k \in 1..(Len(Steps) - 1) :
       LET r == Rank(Steps[k].op)
           n == Rank(Steps[k + 1].op)
       IN \/ n = r + 1 /\ StepOk(Steps[k])
          \/ n = 8 /\ r = 8
          \/ n = 10 /\ r >= 5 /\ r < 10
  /\ \A k \in 1..Len(Steps) :
       /\ Steps[k].op \in {"skip", "write"} => \E j \in 1..(k - 1) : TranscribedAt(j)
       /\ Steps[k].op = "cleanup" =>
            /\ k = Len(Steps)
            /\ exc = NoExc =>
                 Cardinality({j \in 1..k : Steps[j].op \in {"skip", "write"}})
                   = Len(args.formats)
       /\ (Steps[k].op \in {"load", "normalize"} /\ Steps[k].outcome # "ok") =>
            \A j \in 1..Len(Steps) :
              Steps[j].op \notin {"temp_create", "export", "construct", "transcribe",
                                  "skip", "write", "cleanup"}

C9_StateChanges ==
  /\ fs' # fs =>
       /\ step = "save"
       /\ \E j \in 1..Len(Steps) : TranscribedAt(j)
       /\ save_args.result = [of |-> cur]
  /\ temps' # temps =>
       \/ /\ temps \subseteq temps' /\ step = "temp_create"
          /\ \E j \in 1..Len(Steps) : Steps[j].op = "load" /\ Steps[j].outcome = "ok"
          /\ \E j \in 1..Len(Steps) : Steps[j].op = "normalize" /\ Steps[j].outcome = "ok"
       \/ /\ temps' \subseteq temps /\ step \in {"finally", "save_returned"}
          /\ exc = NoExc => fmt_i > Len(args.formats)
  /\ (tr' # tr \/ self_model' # self_model) =>
       /\ step \in {"construct", "transcribe"}
       /\ \A op \in {"load", "normalize", "temp_create", "export", "samples"} :
            \E j \in 1..Len(Steps) : Steps[j].op = op /\ Steps[j].outcome = "ok"

\* C9: the steps of one file follow the order load, normalize, temp-file
\* creation, sample extraction, transcribe, format and write, temp-file
\* delete. An output file changes only after the transcription of that file
\* succeeded; the temp file is deleted after the last write attempt and
\* nothing is written after it; when load or normalize fails, no temp file
\* is created and the engine is neither loaded nor run for that file.
C9_StrictSequencePerFile == [](C9_StepOrder) /\ [][C9_StateChanges]_vars

\* a call that ran all the steps: two formats written, then the temp file deleted
C9_Witness ==
  /\ step = "returned" /\ temps = {}
  /\ Len(Steps) = 11
  /\ Steps[8].op = "write" /\ Steps[9].op = "write" /\ Steps[9].outcome = "ok"
  /\ Steps[11] = Event("cleanup", 1, "ok")
  /\ DOMAIN fs = { <<"a", ".", "t", "x", "t">>, <<"a", ".", "j", "s", "o", "n">> }

\* C10: in a batch, an output file that was completely written for one input
\* file is never modified, truncated or removed by a later step: not by the
\* processing of another input file and not by an interruption.
C10_WrittenFilesStayValid ==
  [][\A p \in DOMAIN fs :
       (fs[p].status = "complete" /\ fs[p].content.of # [of |-> cur'])
         => (p \in DOMAIN fs' /\ fs'[p] = fs[p])]_vars

\* the part of C10 the code keeps: no step removes an output file, and a file
\* changes only when the running call writes a path of its own base name
C10_OnlyOwnBaseNameWritten ==
  [][\A p \in DOMAIN fs :
       /\ p \in DOMAIN fs'
       /\ fs'[p] # fs[p] =>
            /\ step = "save"
            /\ SubSeq(p, 1, Len(splitext(p)[1])) = save_args.output_path]_vars

-----------------------------------------------------------------------------
(* audio.load_audio: resolving the path, the fallback lookup, the decoding *)

\* s.split(sep) for a one-character separator
RECURSIVE split(_, _)
split(s, sep) ==
  LET P == {k \in 1..Len(s) : s[k] = sep}
  IN IF P = {} THEN <<s>>
     ELSE LET k == CHOOSE i \in P : \A j \in P : i <= j
          IN <<SubSeq(s, 1, k - 1)>> \o split(SubSeq(s, k + 1, Len(s)), sep)

\* sep.join(parts)
RECURSIVE join_with(_, _)
join_with(parts, sep) ==
  IF parts = <<>> THEN <<>>
  ELSE IF Len(parts) = 1 THEN parts[1]
  ELSE parts[1] \o <<sep>> \o join_with(Tail(parts), sep)

\* os.path.join(a, b) on POSIX paths
path_join(a, b) ==
  IF b # <<>> /\ b[1] = "/" THEN b
  ELSE IF a = <<>> \/ a[Len(a)] = "/" THEN a \o b
  ELSE a \o <<"/">> \o b

\* os.path.expanduser(path): "~" and "~/..." stand for the home directory,
\* "~name" of an unknown user is left alone
expanduser(path, home) ==
  IF path = <<>> \/ path[1] # "~" THEN path
  ELSE IF Len(path) = 1 THEN home
  ELSE IF path[2] = "/" THEN home \o SubSeq(path, 2, Len(path))
  ELSE path

\* the loop of posixpath.normpath over the components of an absolute path:
\* "" and "." are dropped, ".." removes the component before it
RECURSIVE norm_comps(_, _)
norm_comps(comps, new_comps) ==
  IF comps = <<>> THEN new_comps
  ELSE LET comp == Head(comps)
       IN IF comp = <<>> \/ comp = <<".">> THEN norm_comps(Tail(comps), new_comps)
          ELSE IF comp # <<".", ".">> THEN norm_comps(Tail(comps), Append(new_comps, comp))
          ELSE IF new_comps = <<>> THEN norm_comps(Tail(comps), new_comps)
          ELSE norm_comps(Tail(comps), SubSeq(new_comps, 1, Len(new_comps) - 1))

\* os.path.abspath(path) when the current working directory is cwd
abspath(path, cwd) ==
  LET p == IF path # <<>> /\ path[1] = "/" THEN path ELSE path_join(cwd, path)
  IN <<"/">> \o join_with(norm_comps(split(p, "/"), <<>>), "/")

\* os.path.basename(path)
basename(path) ==
  LET parts == split(path, "/") IN parts[Len(parts)]

\* an AudioSegment: what the decoder made of a file
Audio(channels, frame_rate) == [channels |-> channels, frame_rate |-> frame_rate]

\* no AudioSegment: the file cannot be decoded, or the call raised
NoAudio == Audio(0, 0)

\* a fallback looked up in the working directory itself
alternative_path_in_cwd(file_path, cwd) == path_join(cwd, basename(file_path))

\* audio_dir = os.path.join(os.getcwd(), 'audio');
\* alternative_path = os.path.join(audio_dir, os.path.basename(file_path))
alternative_path(file_path, cwd) ==
  path_join(path_join(cwd, <<"a", "u", "d", "i", "o">>), basename(file_path))

\* a handler of the decoder's exception that lets it go on unchanged
decode_failed_reraise(file_path) ==
  [effects |-> << Event("error", file_path, "Failed to load audio file"),
                  Event("raise", file_path, "CodecError") >>,
   raised |-> Exc("CodecError", "decode", "none"),
   value |-> NoAudio]

\* "except Exception as e": three error records, the last two the hint to
\* install FFmpeg, then raise ValueError(f"Failed to load audio file: {e}")
decode_failed(file_path) ==
  [effects |-> << Event("error", file_path, "Failed to load audio file"),
                  Event("error", file_path, "Make sure FFmpeg is installed and in your PATH"),
                  Event("error", file_path, "Download FFmpeg from"),
                  Event("raise", file_path, "ValueError") >>,
   raised |-> Exc("ValueError", "Failed to load audio file", "CodecError"),
   value |-> NoAudio]

\* the try block: AudioSegment.from_file(file_path), where files maps each
\* existing path to what the decoder makes of it
decode(file_path, files) ==
  IF files[file_path] # NoAudio
  THEN [effects |-> << Event("decode", file_path, "ok"),
                       Event("info", file_path, "Loaded audio file") >>,
        raised |-> NoExc,
        value |-> files[file_path]]
  ELSE LET f == decode_failed(file_path)
       IN [f EXCEPT !.effects = << Event("decode", file_path, "CodecError") >> \o @]

\* load_audio(file_path): the calls it makes in order (os.path.exists, the
\* decoder, the logger), what it raises and what it returns
load_audio_of(file_path, cwd, home, files) ==
  LET resolved == abspath(expanduser(file_path, home), cwd)
      alt == alternative_path(resolved, cwd)
  IN IF resolved \in DOMAIN files
     THEN LET d == decode(resolved, files)
          IN [d EXCEPT !.effects = << Event("exists", resolved, "yes") >> \o @]
     ELSE IF alt \in DOMAIN files
     THEN LET d == decode(alt, files)
          IN [d EXCEPT !.effects = << Event("exists", resolved, "no"),
                                      Event("exists", alt, "yes"),
                                      Event("info", alt, "Found audio file in audio directory") >>
                                    \o @]
     ELSE [effects |-> << Event("exists", resolved, "no"),
                          Event("exists", alt, "no"),
                          Event("error", resolved, "Audio file not found"),
                          Event("error", alt, "Alternative path also not found"),
                          Event("raise", resolved, "FileNotFoundError") >>,
           raised |-> Exc("FileNotFoundError", "Audio file not found", "none"),
           value |-> NoAudio]

\* the process runs in /w with the home directory /h; the file system holds
\* a subset of four audio files, each decodable (stereo, 44.1 kHz) or not,
\* and the working directory, which exists and is not decodable
InitLoad ==
  /\ args = None /\ pc = "unit" /\ exit_code = "none"
  /\ LET Cwd == <<"/", "w">>
         AudioPaths ==
         { <<"/", "w", "/", "a", ".", "w", "a", "v">>, <<"/", "h", "/", "a", ".", "w", "a", "v">>, <<"/", "m", "/", "a", ".", "w", "a", "v">>, <<"/", "w", "/", "a", "u", "d", "i", "o", "/", "a", ".", "w", "a", "v">> }
     IN \E S \in SUBSET AudioPaths : \E G \in SUBSET S :
          env = [cwd |-> Cwd, home |-> <<"/", "h">>,
                 files |-> [p \in S \cup {Cwd} |->
                              IF p \in G THEN Audio(2, 44100) ELSE NoAudio]]
  /\ audio_files = <<>> /\ file_i = 0 /\ cur = <<>> /\ exc = NoExc
  /\ temp_file = 0 /\ temps = {} /\ next_temp = 1
  /\ self_model = NoModel /\ tr = TrInit /\ result = NoAudio
  /\ step = "ready"
  /\ save_args = [result |-> NoResult, output_path |-> <<>>, formats |-> <<>>]
  /\ fmt_i = 0 /\ saved_files = EmptyDict
  /\ fs = EmptyDict /\ log = <<>> /\ trace = <<>>

\* one call load_audio(file_path) with a path that is relative, under "~",
\* absolute, with ".." or ".", inside the audio directory, of another name
\* or empty; the logger gets the records among the effects; trace holds
\* the calls it made in order
load_audio_call ==
  /\ pc = "unit" /\ step = "ready"
  /\ LET InputPaths ==
           { <<"a", ".", "w", "a", "v">>, <<"~", "/", "a", ".", "w", "a", "v">>, <<"/", "m", "/", "a", ".", "w", "a", "v">>, <<"d", "/", ".", ".", "/", "a", ".", "w", "a", "v">>, <<".", "/", "a", "u", "d", "i", "o", "/", "a", ".", "w", "a", "v">>,
             <<"b", ".", "w", "a", "v">>, <<>> }
     IN \E file_path \in InputPaths :
       LET r == load_audio_of(file_path, env.cwd, env.home, env.files)
           L == SelectSeq(r.effects, LAMBDA e : e.op \in {"info", "warning", "error"})
       IN /\ cur' = file_path
          /\ trace' = r.effects
          /\ log' = log \o [k \in 1..Len(L) |-> LogRec(L[k].op, L[k].outcome, L[k].arg)]
          /\ exc' = r.raised
          /\ result' = r.value
  /\ step' = "loaded"
  /\ UNCHANGED <<args, env, pc, exit_code, audio_files, file_i, temp_file,
                 temps, next_temp, self_model, tr, save_args, fmt_i,
                 saved_files, fs>>

NextLoad == load_audio_call

SpecLoad == InitLoad /\ [][NextLoad]_vars

-----------------------------------------------------------------------------
(* Properties of load_audio (checked under SpecLoad). *)

\* the absolute path each input stands for, with the working directory /w
\* and the home directory /h, written out path by path
ExpectedResolved(p) ==
  CASE p = <<"a", ".", "w", "a", "v">> -> <<"/", "w", "/", "a", ".", "w", "a", "v">>
    [] p = <<"~", "/", "a", ".", "w", "a", "v">> -> <<"/", "h", "/", "a", ".", "w", "a", "v">>
    [] p = <<"/", "m", "/", "a", ".", "w", "a", "v">> -> <<"/", "m", "/", "a", ".", "w", "a", "v">>
    [] p = <<"d", "/", ".", ".", "/", "a", ".", "w", "a", "v">> -> <<"/", "w", "/", "a", ".", "w", "a", "v">>
    [] p = <<".", "/", "a", "u", "d", "i", "o", "/", "a", ".", "w", "a", "v">> -> <<"/", "w", "/", "a", "u", "d", "i", "o", "/", "a", ".", "w", "a", "v">>
    [] p = <<"b", ".", "w", "a", "v">> -> <<"/", "w", "/", "b", ".", "w", "a", "v">>
    [] p = <<>> -> <<"/", "w">>

\* "<cwd>/audio/<basename>" for each input, written out path by path
ExpectedFallback(p) ==
  CASE p = <<"b", ".", "w", "a", "v">> -> <<"/", "w", "/", "a", "u", "d", "i", "o", "/", "b", ".", "w", "a", "v">>
    [] p = <<>> -> <<"/", "w", "/", "a", "u", "d", "i", "o", "/", "w">>
    [] OTHER -> <<"/", "w", "/", "a", "u", "d", "i", "o", "/", "a", ".", "w", "a", "v">>

Exists(p) == p \in DOMAIN env.files

\* the paths handed to the decoder by the call, in order
DecodeAttempts ==
  LET D == SelectSeq(trace, LAMBDA e : e.op = "decode")
  IN [k \in 1..Len(D) |-> D[k].arg]

\* the paths whose existence the call asked for, in order
ExistenceTests ==
  LET D == SelectSeq(trace, LAMBDA e : e.op = "exists")
  IN [k \in 1..Len(D) |-> D[k].arg]

\* C11: load_audio raises FileNotFoundError exactly when neither the resolved
\* path nor "<cwd>/audio/<basename>" exists, and then the decoder is not
\* called; when the resolved path exists it is the one decoded and the
\* fallback is not looked up; when only the fallback exists it is decoded.
C11_NotFoundIffBothPathsMissing ==
  step = "loaded" =>
    LET R == ExpectedResolved(cur)
        F == ExpectedFallback(cur)
    IN /\ exc.type = "FileNotFoundError" <=> (~Exists(R) /\ ~Exists(F))
       /\ exc.type = "FileNotFoundError" => DecodeAttempts = <<>> /\ result = NoAudio
       /\ Exists(R) => DecodeAttempts = <<R>> /\ ExistenceTests = <<R>>
       /\ (~Exists(R) /\ Exists(F)) => DecodeAttempts = <<F>> /\ ExistenceTests = <<R, F>>

\* "~/a.wav" is missing under the home directory and found, and decoded, in
\* the audio directory
C11_Witness ==
  /\ step = "loaded"
  /\ cur = <<"~", "/", "a", ".", "w", "a", "v">>
  /\ DecodeAttempts = << <<"/", "w", "/", "a", "u", "d", "i", "o", "/", "a", ".", "w", "a", "v">> >>
  /\ result = Audio(2, 44100)
  /\ <<"/", "w", "/", "a", ".", "w", "a", "v">> \in DOMAIN env.files

\* the position of the first effect of the call that satisfies Test, 0 if none
FirstEffect(Test(_)) ==
  LET K == {k \in 1..Len(trace) : Test(trace[k])}
  IN IF K = {} THEN 0 ELSE CHOOSE k \in K : \A j \in K : k <= j

\* C12: when the file was found and the decoder fails on it, the caller gets
\* ValueError("Failed to load audio file") raised from the decoder's
\* exception, never FileNotFoundError and never the decoder's exception
\* itself, and both lines of the FFmpeg hint are logged before the raise.
C12_DecodeFailureIsValueErrorAfterHint ==
  (step = "loaded" /\ \E k \in 1..Len(trace) :
                        trace[k].op = "decode" /\ trace[k].outcome # "ok") =>
    LET raise == FirstEffect(LAMBDA e : e.op = "raise")
        hint1 == FirstEffect(LAMBDA e : e.op = "error"
                               /\ e.outcome = "Make sure FFmpeg is installed and in your PATH")
        hint2 == FirstEffect(LAMBDA e : e.op = "error" /\ e.outcome = "Download FFmpeg from")
        failed == FirstEffect(LAMBDA e : e.op = "decode")
    IN /\ exc = [type |-> "ValueError", msg |-> "Failed to load audio file",
                 context |-> "CodecError"]
       /\ result = NoAudio
       /\ raise = Len(trace) /\ trace[raise].outcome = "ValueError"
       /\ failed < hint1 /\ hint1 < hint2 /\ hint2 < raise
       /\ \E k \in 1..Len(log) : log[k].msg = "Make sure FFmpeg is installed and in your PATH"

\* the file found through the fallback cannot be decoded
C12_Witness ==
  /\ step = "loaded"
  /\ cur = <<"a", ".", "w", "a", "v">>
  /\ ExistenceTests = << <<"/", "w", "/", "a", ".", "w", "a", "v">>, <<"/", "w", "/", "a", "u", "d", "i", "o", "/", "a", ".", "w", "a", "v">> >>
  /\ exc.type = "ValueError"
  /\ Len(log) = 4

-----------------------------------------------------------------------------
(* audio.cleanup_temp_file called on its own *)

\* temporary files are named 1, 2, ...; 0 stands for None and EmptyPath for
\* the empty string, the two values "if temp_file_path" takes as false
EmptyPath == -1

\* an except clause that lets the error of os.unlink go on
unlink_failed_reraise(e) == e

\* "except Exception as e: logger.warning(...)": the error of os.unlink is
\* logged and not raised again
unlink_failed(e) == NoExc

\* cleanup_temp_file(temp_file_path): the files left, what the call raises,
\* and the logger record it emits ("none" when it logs nothing)
cleanup_temp_file_of(existing, temp_file_path, unlink_ok) ==
  LET attempted == temp_file_path # EmptyPath
                     /\ unlink_attempted(existing, temp_file_path)
  IN [files |-> cleanup_temp_file(existing, temp_file_path, unlink_ok),
      raised |-> IF attempted /\ ~unlink_ok
                 THEN unlink_failed(Exc("OSError", "unlink", "none"))
                 ELSE NoExc,
      unlink |-> IF attempted THEN Outcome(unlink_ok, "OSError") ELSE "none",
      logged |-> IF ~attempted THEN "none"
                 ELSE IF unlink_ok THEN "debug" ELSE "warning"]

InitCleanup ==
  /\ args = None /\ env = None /\ pc = "unit" /\ exit_code = "none"
  /\ audio_files = <<>> /\ file_i = 0 /\ cur = <<>> /\ exc = NoExc
  /\ temp_file = 0 /\ temps \in SUBSET {1, 2} /\ next_temp = 3
  /\ self_model = NoModel /\ tr = TrInit /\ result = NoResult
  /\ step = "ready"
  /\ save_args = [result |-> NoResult, output_path |-> <<>>, formats |-> <<>>]
  /\ fmt_i = 0 /\ saved_files = EmptyDict
  /\ fs = EmptyDict /\ log = <<>> /\ trace = <<>>

\* one call cleanup_temp_file(temp_file_path) with None, "", one of two
\* files that may exist, or a path that never exists; a call that raised ends the run
cleanup_temp_file_call ==
  /\ pc = "unit" /\ step = "ready" /\ exc = NoExc
  /\ tr.calls < MaxCalls
  /\ \E p \in {0, EmptyPath, 1, 2, 3}, unlink_ok \in BOOLEAN :
       LET r == cleanup_temp_file_of(temps, p, unlink_ok)
       IN /\ (r.unlink = "none" => unlink_ok)
          /\ temps' = r.files
          /\ exc' = r.raised
          /\ temp_file' = p
          /\ log' = IF r.logged = "none" THEN log
                    ELSE Append(log, LogRec(r.logged, "temporary file", <<>>))
          /\ trace' = Append(trace,
               Event("cleanup", p, [before |-> temps, after |-> r.files,
                                    unlink |-> r.unlink, raised |-> r.raised,
                                    logged |-> r.logged]))
  /\ tr' = [tr EXCEPT !.calls = @ + 1]
  /\ UNCHANGED <<args, env, pc, exit_code, audio_files, file_i, step, cur,
                 next_temp, self_model, result, save_args, fmt_i, saved_files, fs>>

NextCleanup == cleanup_temp_file_call

SpecCleanup == InitCleanup /\ [][NextCleanup]_vars

-----------------------------------------------------------------------------
(* Properties of cleanup_temp_file (checked under SpecCleanup). *)

\* the call recorded as e had nothing to remove
NothingToRemove(e) == e.arg \in {0, -1} \/ e.arg \notin e.outcome.before

\* C13: cleanup_temp_file never raises; given None, an empty path or a path
\* that does not exist it leaves the file system unchanged; given an
\* existing file it removes exactly that file; a second call in a row on the
\* same path leaves the state of the first call.
C13_NeverRaisesAndRemovesTheFile ==
  \A k \in 1..Len(trace) :
    LET e == trace[k]
    IN /\ e.outcome.raised = NoExc
       /\ NothingToRemove(e) => e.outcome.after = e.outcome.before
       /\ ~NothingToRemove(e) => e.outcome.after = e.outcome.before \ {e.arg}
       /\ (k > 1 /\ trace[k - 1].arg = e.arg) => e.outcome.after = e.outcome.before

\* C13 as the code keeps it: cleanup_temp_file never raises; given None, an
\* empty path or a path that does not exist it leaves the file system
\* unchanged and logs nothing; given an existing file it calls unlink on
\* exactly that file, after which the file is gone and nothing else changed,
\* or, when unlink fails, the file system is unchanged and a warning is
\* logged; a second call in a row on the same path changes nothing when the
\* first call removed the file or had nothing to remove.
C13_NeverRaisesRemovesUnlessUnlinkFails ==
  \A k \in 1..Len(trace) :
    LET e == trace[k]
        o == e.outcome
    IN /\ o.raised = NoExc
       /\ NothingToRemove(e) =>
            o.after = o.before /\ o.unlink = "none" /\ o.logged = "none"
       /\ ~NothingToRemove(e) =>
            \/ o.unlink = "ok" /\ o.after = o.before \ {e.arg} /\ o.logged = "debug"
            \/ o.unlink = "OSError" /\ o.after = o.before /\ o.logged = "warning"
       /\ (k > 1 /\ trace[k - 1].arg = e.arg /\ trace[k - 1].outcome.unlink # "OSError")
            => o.after = o.before /\ o.unlink = "none"

\* unlink fails on file 1, the next call removes it, a third call finds nothing
C13_Witness ==
  /\ Len(trace) = 3
  /\ \A k \in 1..3 : trace[k].arg = 1
  /\ trace[1].outcome.unlink = "OSError" /\ trace[1].outcome.before = {1, 2}
  /\ trace[2].outcome.unlink = "ok" /\ trace[2].outcome.after = {2}
  /\ trace[3].outcome.unlink = "none"
  /\ temps = {2} /\ exc = NoExc

-----------------------------------------------------------------------------
(* Numbers and text of a transcription *)

RECURSIVE Pow2(_)
Pow2(n) == IF n = 0 THEN 1 ELSE 2 * Pow2(n - 1)

\* A Python float (IEEE-754 double, 53-bit significand) that holds a time of
\* t milliseconds in seconds: the double nearest to t/1000. With e the binary
\* exponent of t/1000 the doubles around it are the multiples of 2^(e-52), so
\* the nearest one is whole + milli/1000 + err/(1000 * 2^(52-e)), where err is
\* the rounding error of milli * 2^(52-e) / 1000 to the nearest integer,
\* scaled by 1000: an integer in -499..499, and 0 when t/1000 is a double.
\* The record holds that value exactly. (BinaryExponent(t, 0) is the e with
\* 2^e <= t/1000 < 2^(e+1) for t >= 1; Pow2Mod1000(n) is 2^n modulo 1000.)
Double(t) ==
  LET RECURSIVE BinaryExponent(_, _)
      BinaryExponent(u, e) ==
        IF u >= 1000
        THEN IF 1000 * Pow2(e + 1) <= u THEN BinaryExponent(u, e + 1) ELSE e
        ELSE IF u * Pow2(-e) < 1000 THEN BinaryExponent(u, e - 1) ELSE e
      RECURSIVE Pow2Mod1000(_)
      Pow2Mod1000(n) == IF n = 0 THEN 1 ELSE (2 * Pow2Mod1000(n - 1)) % 1000
      milli == t % 1000
      e == BinaryExponent(t, 0)
      r == (milli * Pow2Mod1000(52 - e)) % 1000
  IN [whole |-> t \div 1000,
      milli |-> milli,
      err |-> IF milli = 0 THEN 0 ELSE IF r < 500 THEN -r ELSE 1000 - r,
      exp |-> IF milli = 0 THEN 0 ELSE e]

\* int(f * 1000) for a fraction 0 <= f < 1. The exact product is
\* milli + err / 2^(52-exp). It is rounded to the nearest double (ties to
\* even) before int() cuts it off, so when err is negative the result is
\* milli only if the product rounds up to milli: if it is at most half a
\* spacing below milli, where the doubles below milli are 2^(j-52) apart, or
\* 2^(j-53) when milli is the power of two 2^j (j = FloorLog2(milli), the
\* largest j with 2^j <= milli).
int_times_1000(f) ==
  LET RECURSIVE FloorLog2(_)
      FloorLog2(n) == IF n < 2 THEN 0 ELSE 1 + FloorLog2(n \div 2)
      j == FloorLog2(f.milli)
      k == j - f.exp - 1 - (IF f.milli = Pow2(j) THEN 1 ELSE 0)
  IN IF f.err >= 0 THEN f.milli
     ELSE IF k >= 0 /\ -f.err <= Pow2(k) THEN f.milli
     ELSE f.milli - 1

\* str(n) for an integer n >= 0
RECURSIVE str_int(_)
str_int(n) ==
  LET Digit(d) == <<"0", "1", "2", "3", "4", "5", "6", "7", "8", "9">>[d + 1]
  IN IF n < 10 THEN <<Digit(n)>> ELSE str_int(n \div 10) \o <<Digit(n % 10)>>

\* a number formatted without the zero padding
format_d_unpadded(n, width) == str_int(n)

\* f"{n:0{width}d}": the decimal digits of n, filled with zeros on the left
\* up to width characters and never cut
format_d(n, width) ==
  LET d == str_int(n)
  IN [k \in 1..(IF Len(d) < width THEN width - Len(d) ELSE 0) |-> "0"] \o d

-----------------------------------------------------------------------------
(* postprocessor._format_timestamp *)

\* _format_timestamp(seconds, format_type): the string returned, or the
\* ValueError raised for a format_type other than srt and vtt. On a float
\* x >= 0, x // n and x % n for a positive integer n are exact (the quotient
\* a whole number, the remainder keeping the fraction), int(x) cuts the
\* fraction off, and x - k for a whole number k <= x is exact.
format_timestamp(seconds, format_type) ==
  LET float_floordiv(x, n) == x.whole \div n
      float_mod(x, n) == [x EXCEPT !.whole = @ % n]
      float_int(x) == x.whole
      float_sub(x, k) == [x EXCEPT !.whole = @ - k]
      hours == float_floordiv(seconds, 3600)
      seconds1 == float_mod(seconds, 3600)
      minutes == float_floordiv(seconds1, 60)
      seconds2 == float_mod(seconds1, 60)
      milliseconds == int_times_1000(float_sub(seconds2, float_int(seconds2)))
      seconds3 == float_int(seconds2)
      hms == format_d(hours, 2) \o <<":">> \o format_d(minutes, 2) \o <<":">>
               \o format_d(seconds3, 2)
  IN IF lower(format_type) = srt
     THEN [raised |-> NoExc, value |-> hms \o <<",">> \o format_d(milliseconds, 3)]
     ELSE IF lower(format_type) = vtt
     THEN [raised |-> NoExc, value |-> hms \o <<".">> \o format_d(milliseconds, 3)]
     ELSE [raised |-> Exc("ValueError", "Unsupported format type", "none"),
           value |-> <<>>]

\* two times in milliseconds (around the second, the minute, the hour, ten
\* hours, a day and a hundred hours) and a format_type: one of the two known
\* ones, an upper-case one or another
InitTimestamp ==
  /\ LET Times ==
           {0, 1, 999, 1000, 1001, 1003, 2500, 4100, 4101, 59999, 60000, 60001,
            3599999, 3600000, 3661001, 3661500, 35999999, 36000000, 86400000,
            359999999, 360000000, 360000001}
     IN args \in [t1 : Times, t2 : Times,
                  format_type : {srt, vtt, <<"V", "T", "T">>, <<"a", "s", "s">>}]
  /\ env = None /\ pc = "unit" /\ exit_code = "none"
  /\ audio_files = <<>> /\ file_i = 0 /\ cur = <<>> /\ exc = NoExc
  /\ temp_file = 0 /\ temps = {} /\ next_temp = 1
  /\ self_model = NoModel /\ tr = TrInit /\ result = <<>>
  /\ step = "ready"
  /\ save_args = [result |-> NoResult, output_path |-> <<>>, formats |-> <<>>]
  /\ fmt_i = 0 /\ saved_files = EmptyDict
  /\ fs = EmptyDict /\ log = <<>> /\ trace = <<>>

\* _format_timestamp called on the two times in turn; a call that raises
\* ends the run
format_timestamp_call ==
  /\ pc = "unit" /\ step = "ready" /\ exc = NoExc
  /\ Len(result) < 2
  /\ LET t == IF result = <<>> THEN args.t1 ELSE args.t2
         r == format_timestamp(Double(t), args.format_type)
     IN /\ exc' = r.raised
        /\ result' = IF r.raised = NoExc THEN Append(result, r.value) ELSE result
  /\ UNCHANGED <<args, env, pc, exit_code, audio_files, file_i, step, cur,
                 temp_file, temps, next_temp, self_model, tr, save_args, fmt_i,
                 saved_files, fs, log, trace>>

NextTimestamp == format_timestamp_call

SpecTimestamp == InitTimestamp /\ [][NextTimestamp]_vars

-----------------------------------------------------------------------------
(* Properties of _format_timestamp (checked under SpecTimestamp). *)

DigitValue(c) ==
  CASE c = "0" -> 0 [] c = "1" -> 1 [] c = "2" -> 2 [] c = "3" -> 3 [] c = "4" -> 4
    [] c = "5" -> 5 [] c = "6" -> 6 [] c = "7" -> 7 [] c = "8" -> 8 [] c = "9" -> 9

\* the number a string of decimal digits stands for
RECURSIVE Number(_)
Number(s) ==
  IF s = <<>> THEN 0 ELSE 10 * Number(SubSeq(s, 1, Len(s) - 1)) + DigitValue(s[Len(s)])

\* the time of the k-th call, in milliseconds
TimeOfCall(k) == IF k = 1 THEN args.t1 ELSE args.t2

\* the fields of a timestamp "H..H:MM:SS<sep>mmm", sep being "," or "."
Fields(s) ==
  LET n == Len(s)
  IN [hours |-> SubSeq(s, 1, n - 10), minutes |-> SubSeq(s, n - 8, n - 7),
      seconds |-> SubSeq(s, n - 5, n - 4), milliseconds |-> SubSeq(s, n - 2, n),
      seps |-> <<s[n - 9], s[n - 6], s[n - 3]>>]

ExpectedSeparator == IF args.format_type = srt THEN "," ELSE "."

\* the fields of s are hours (two digits or more), minutes and seconds in
\* 0..59 and milliseconds in 0..999, and they add up to total milliseconds
FieldsAddUpTo(s, total) ==
  LET f == Fields(s)
  IN /\ Len(s) >= 12
     /\ f.seps = <<":", ":", ExpectedSeparator>>
     /\ Number(f.minutes) \in 0..59
     /\ Number(f.seconds) \in 0..59
     /\ Number(f.milliseconds) \in 0..999
     /\ Number(f.hours) * 3600000 + Number(f.minutes) * 60000
          + Number(f.seconds) * 1000 + Number(f.milliseconds) = total

\* C17: for a time of t milliseconds the timestamp has hours = t div
\* 3,600,000 (never wrapped at 24), minutes and seconds in 0..59 and
\* milliseconds in 0..999, and the fields add up to t; 0 is 00:00:00,000 and
\* 3661.5 s is 01:01:01,500 (with "." for vtt).
C17_FieldsAddUpToTheTime ==
  \A k \in 1..Len(result) :
    LET t == TimeOfCall(k)
    IN /\ FieldsAddUpTo(result[k], t)
       /\ Number(Fields(result[k]).hours) = t \div 3600000
       /\ t = 0 => result[k] = <<"0", "0", ":", "0", "0", ":", "0", "0">> \o <<ExpectedSeparator>> \o <<"0", "0", "0">>
       /\ t = 3661500 => result[k] = <<"0", "1", ":", "0", "1", ":", "0", "1">> \o <<ExpectedSeparator>> \o <<"5", "0", "0">>

\* the part of C17 the code keeps: hours, minutes and seconds are those of t
\* and the milliseconds field is that of t or one less
C17_MillisecondsAtMostOneShort ==
  \A k \in 1..Len(result) :
    LET t == TimeOfCall(k)
        f == Fields(result[k])
    IN /\ FieldsAddUpTo(result[k], t) \/ FieldsAddUpTo(result[k], t - 1)
       /\ Number(f.hours) = t \div 3600000
       /\ Number(f.minutes) = (t \div 60000) % 60
       /\ Number(f.seconds) = (t \div 1000) % 60
       /\ t % 1000 = 0 => Number(f.milliseconds) = 0

\* the hour field of a timestamp: what stands before the first ":"
HourField(s) ==
  LET P == {k \in 1..Len(s) : s[k] = ":"}
  IN IF P = {} THEN s ELSE SubSeq(s, 1, (CHOOSE k \in P : \A j \in P : k <= j) - 1)

\* s <= t in lexicographic order
StrLessEq(s, t) == s = t \/ StrLess(s, t)

\* C18: formatting is monotonic: for times s1 < s2 whose hour fields have
\* the same number of digits the timestamp of s1 is lexicographically less
\* than or equal to that of s2, in SRT and in VTT form.
C18_FormattingIsMonotonic ==
  Len(result) = 2 =>
    \A i, k \in 1..2 :
      (/\ TimeOfCall(i) < TimeOfCall(k)
       /\ Len(HourField(result[i])) = Len(HourField(result[k])))
        => StrLessEq(result[i], result[k])

\* two times a millisecond apart in the same second, formatted for VTT
C18_Witness ==
  /\ args.t1 = 4100 /\ args.t2 = 4101 /\ args.format_type = vtt
  /\ Len(result) = 2
  /\ StrLess(result[1], result[2])
  /\ SubSeq(result[2], 1, 9) = <<"0", "0", ":", "0", "0", ":", "0", "4", ".">>

-----------------------------------------------------------------------------
(* transcriber: from the engine's output to a TranscriptionResult *)

\* the characters str.strip() removes
\* s.strip(): the white space at both ends is taken off
strip(s) ==
  LET Whitespace == {" ", "\t", "\n", "\r"}
      RECURSIVE lstrip(_)
      lstrip(u) == IF u # <<>> /\ u[1] \in Whitespace THEN lstrip(Tail(u)) ELSE u
      RECURSIVE rstrip(_)
      rstrip(u) ==
        IF u # <<>> /\ u[Len(u)] \in Whitespace
        THEN rstrip(SubSeq(u, 1, Len(u) - 1)) ELSE u
  IN rstrip(lstrip(s))

\* Segment(id, start, end, text)
Segment(id, start, end, text) == [id |-> id, start |-> start, end |-> end, text |-> text]

\* a conversion that takes over the id the engine gave
convert_whisper_segments_engine_ids(segments) ==
  [i \in 1..Len(segments) |->
     Segment(segments[i].id, segments[i].start, segments[i].end, strip(segments[i].text))]

\* _convert_whisper_segments(segments): enumerate() counts from 0
convert_whisper_segments(segments) ==
  [i \in 1..Len(segments) |->
     Segment(i - 1, segments[i].start, segments[i].end, strip(segments[i].text))]

\* TranscriptionResult(text, segments, language)
TranscriptionResult(text, segments, language) ==
  [text |-> text, segments |-> segments, language |-> language]

\* the end of the try block of transcribe(): the result built from what
\* self.model.transcribe returned
transcription_result(whisper_result) ==
  TranscriptionResult(strip(whisper_result.text),
                      convert_whisper_segments(whisper_result.segments),
                      whisper_result.language)

\* most segments in one engine output
MaxSegments == 2

\* segments as the engine returns them: ids of its own, text with white
\* space around it, with a tab, a quote and a backslash inside, or blank
EngineSegments ==
  { Segment(0, Double(0), Double(2500), <<" ", "H", "i">>),
    Segment(7, Double(2500), Double(4100), <<"a", "\t", "b", " ", "\n">>),
    Segment(0, Double(4100), Double(3661001), <<"q", "\"", "\\">>),
    Segment(3, Double(1001), Double(1001), <<" ", " ">>) }

\* what self.model.transcribe may return: a full text, up to MaxSegments
\* segments and a language
EngineOutputs ==
  [text : { <<" ", "H", "i", " ", "a", "\t", "b", "\n">>, <<>> },
   segments : BoundedSeqs(EngineSegments, MaxSegments),
   language : { <<"e", "n">>, <<"d", "e">> }]

\* Either the engine has returned env and transcribe() is about to build its
\* result, or the result is one a caller built by hand, with any ids and text
InitRender ==
  /\ env \in EngineOutputs
  /\ \/ step = "engine" /\ result = TranscriptionResult(<<>>, <<>>, <<>>)
     \/ step = "made" /\ result = env
  /\ args = None /\ pc = "unit" /\ exit_code = "none"
  /\ audio_files = <<>> /\ file_i = 0 /\ cur = <<>> /\ exc = NoExc
  /\ temp_file = 0 /\ temps = {} /\ next_temp = 1
  /\ self_model = NoModel /\ tr = TrInit
  /\ save_args = [result |-> NoResult, output_path |-> <<>>, formats |-> <<>>]
  /\ fmt_i = 0 /\ saved_files = EmptyDict
  /\ fs = EmptyDict /\ log = <<>> /\ trace = <<>>

\* transcribe() returns the TranscriptionResult
transcribe_returns ==
  /\ pc = "unit" /\ step = "engine"
  /\ result' = transcription_result(env)
  /\ step' = "adapted"
  /\ UNCHANGED <<args, env, pc, exit_code, audio_files, file_i, cur, exc,
                 temp_file, temps, next_temp, self_model, tr, save_args, fmt_i,
                 saved_files, fs, log, trace>>

-----------------------------------------------------------------------------
(* postprocessor: generate_srt, generate_vtt, generate_json *)

\* the lines generate_srt appends for the segments, in order
RECURSIVE srt_lines(_)
srt_lines(segments) ==
  IF segments = <<>> THEN <<>>
  ELSE LET segment == Head(segments)
           start_time == format_timestamp(segment.start, srt).value
           end_time == format_timestamp(segment.end, srt).value
       IN << str_int(segment.id + 1), start_time \o <<" ", "-", "-", ">", " ">> \o end_time, segment.text, <<>> >>
            \o srt_lines(Tail(segments))

\* a rendering that numbers the blocks by their place in the list
generate_srt_numbered_by_place(res) ==
  join_with(srt_lines([k \in 1..Len(res.segments) |->
                         [res.segments[k] EXCEPT !.id = k - 1]]), "\n")

\* generate_srt(result)
generate_srt(res) == join_with(srt_lines(res.segments), "\n")

\* the lines generate_vtt appends for the segments, in order
RECURSIVE vtt_lines(_)
vtt_lines(segments) ==
  IF segments = <<>> THEN <<>>
  ELSE LET segment == Head(segments)
           start_time == format_timestamp(segment.start, vtt).value
           end_time == format_timestamp(segment.end, vtt).value
       IN << start_time \o <<" ", "-", "-", ">", " ">> \o end_time, segment.text, <<>> >>
            \o vtt_lines(Tail(segments))

\* a header line without the empty line behind it
vtt_header_only == << <<"W", "E", "B", "V", "T", "T">> >>

\* vtt_lines = ["WEBVTT", ""]
vtt_header == << <<"W", "E", "B", "V", "T", "T">>, <<>> >>

\* generate_vtt(result)
generate_vtt(res) == join_with(vtt_header \o vtt_lines(res.segments), "\n")

\* JSON values: strings, integers, floats, arrays, and objects as the list
\* of their (key, value) pairs in insertion order
JStr(s) == [t |-> "str", v |-> s]
JInt(n) == [t |-> "int", v |-> n]
JFloat(x) == [t |-> "float", v |-> x]
JArr(items) == [t |-> "arr", v |-> items]
JObj(pairs) == [t |-> "obj", v |-> pairs]

\* an encoder that writes every character as it is
json_escape_char_raw(c) == <<c>>

\* the escapes of json.dumps(..., ensure_ascii=False) for the characters of
\* the model: quote, backslash and the control characters
json_escape_char(c) ==
  CASE c = "\"" -> <<"\\", "\"">>
    [] c = "\\" -> <<"\\", "\\">>
    [] c = "\n" -> <<"\\", "n">>
    [] c = "\r" -> <<"\\", "r">>
    [] c = "\t" -> <<"\\", "t">>
    [] OTHER -> <<c>>

RECURSIVE json_escape(_)
json_escape(s) ==
  IF s = <<>> THEN <<>> ELSE json_escape_char(Head(s)) \o json_escape(Tail(s))

\* float.__repr__: the shortest decimal that reads back as the same double;
\* for the double nearest to a whole number of milliseconds that is the
\* seconds with up to three decimals, at least one (strip_zeros takes the
\* zeros at the end off, but never the last digit)
float_repr(x) ==
  LET RECURSIVE strip_zeros(_)
      strip_zeros(d) ==
        IF Len(d) > 1 /\ d[Len(d)] = "0"
        THEN strip_zeros(SubSeq(d, 1, Len(d) - 1)) ELSE d
  IN str_int(x.whole) \o <<".">> \o strip_zeros(format_d(x.milli, 3))

Spaces(n) == [k \in 1..n |-> " "]

\* json.dumps(v, ensure_ascii=False, indent=2) at nesting depth level
RECURSIVE dumps(_, _)
RECURSIVE dumps_items(_, _)
RECURSIVE dumps_members(_, _)
dumps(v, level) ==
  CASE v.t = "str" -> <<"\"">> \o json_escape(v.v) \o <<"\"">>
    [] v.t = "int" -> str_int(v.v)
    [] v.t = "float" -> float_repr(v.v)
    [] v.t = "arr" ->
         IF v.v = <<>> THEN <<"[", "]">>
         ELSE <<"[", "\n">> \o dumps_items(v.v, level + 1)
                \o <<"\n">> \o Spaces(2 * level) \o <<"]">>
    [] v.t = "obj" ->
         IF v.v = <<>> THEN <<"{", "}">>
         ELSE <<"{", "\n">> \o dumps_members(v.v, level + 1)
                \o <<"\n">> \o Spaces(2 * level) \o <<"}">>

dumps_items(items, level) ==
  Spaces(2 * level) \o dumps(Head(items), level)
    \o (IF Len(items) = 1 THEN <<>> ELSE <<",", "\n">> \o dumps_items(Tail(items), level))

dumps_members(pairs, level) ==
  Spaces(2 * level) \o <<"\"">> \o json_escape(Head(pairs)[1]) \o <<"\"", ":", " ">>
    \o dumps(Head(pairs)[2], level)
    \o (IF Len(pairs) = 1 THEN <<>> ELSE <<",", "\n">> \o dumps_members(Tail(pairs), level))

\* the dict generate_json builds
json_dict(res) ==
  JObj(<< <<<<"t", "e", "x", "t">>, JStr(res.text)>>,
          <<<<"l", "a", "n", "g", "u", "a", "g", "e">>, JStr(res.language)>>,
          <<<<"s", "e", "g", "m", "e", "n", "t", "s">>,
            JArr([k \in 1..Len(res.segments) |->
                    JObj(<< <<<<"i", "d">>, JInt(res.segments[k].id)>>,
                            <<<<"s", "t", "a", "r", "t">>, JFloat(res.segments[k].start)>>,
                            <<<<"e", "n", "d">>, JFloat(res.segments[k].end)>>,
                            <<<<"t", "e", "x", "t">>, JStr(res.segments[k].text)>> >>)])>> >>)

\* generate_json(result)
generate_json(res) == dumps(json_dict(res), 0)

\* a generator called on the result; fs keeps what each one returned
generate_call(fmt, content) ==
  /\ pc = "unit" /\ step \in {"adapted", "made"}
  /\ fmt \notin DOMAIN fs
  /\ fs' = DictPut(fs, fmt, content)
  /\ UNCHANGED <<args, env, pc, exit_code, audio_files, file_i, step, cur, exc,
                 temp_file, temps, next_temp, self_model, tr, result, save_args,
                 fmt_i, saved_files, log, trace>>

generate_srt_call == generate_call(srt, generate_srt(result))

generate_vtt_call == generate_call(vtt, generate_vtt(result))

generate_json_call == generate_call(json, generate_json(result))

NextRender ==
  \/ transcribe_returns
  \/ generate_srt_call \/ generate_vtt_call \/ generate_json_call

SpecRender == InitRender /\ [][NextRender]_vars

-----------------------------------------------------------------------------
(* json.loads, as the tests read the output of generate_json back *)

\* what does not parse
JErr == [t |-> "err", v |-> <<>>]

\* the character at position i, "EOF" behind the end
At(s, i) == IF i \in 1..Len(s) THEN s[i] ELSE "EOF"

Digits == {"0", "1", "2", "3", "4", "5", "6", "7", "8", "9"}

\* the first position from i on that holds no JSON white space
RECURSIVE skip_ws(_, _)
skip_ws(s, i) == IF At(s, i) \in {" ", "\n", "\t", "\r"} THEN skip_ws(s, i + 1) ELSE i

\* the first position from i on that holds no digit
RECURSIVE skip_digits(_, _)
skip_digits(s, i) == IF At(s, i) \in Digits THEN skip_digits(s, i + 1) ELSE i

\* the number of backslashes that stand directly before position i
RECURSIVE backslashes_before(_, _)
backslashes_before(s, i) ==
  IF At(s, i - 1) = "\\" THEN 1 + backslashes_before(s, i - 1) ELSE 0

\* the text an escaped string body stands for; a body with a control
\* character or an unknown escape is no JSON string
RECURSIVE unescape(_)
unescape(b) ==
  IF b = <<>> THEN [ok |-> TRUE, v |-> <<>>]
  ELSE IF b[1] \in {"\n", "\t", "\r"} THEN [ok |-> FALSE, v |-> <<>>]
  ELSE IF b[1] # "\\"
  THEN LET r == unescape(Tail(b)) IN [ok |-> r.ok, v |-> <<b[1]>> \o r.v]
  ELSE IF Len(b) < 2 \/ b[2] \notin {"\"", "\\", "/", "n", "t", "r"}
  THEN [ok |-> FALSE, v |-> <<>>]
  ELSE LET r == unescape(SubSeq(b, 3, Len(b)))
           c == CASE b[2] = "n" -> "\n" [] b[2] = "t" -> "\t" [] b[2] = "r" -> "\r"
                  [] OTHER -> b[2]
       IN [ok |-> r.ok, v |-> <<c>> \o r.v]

\* a string that starts with the quote at position i
parse_string(s, i) ==
  LET Q == {k \in (i + 1)..Len(s) : s[k] = "\"" /\ backslashes_before(s, k) % 2 = 0}
  IN IF Q = {} THEN [v |-> JErr, i |-> i]
     ELSE LET e == CHOOSE k \in Q : \A j \in Q : k <= j
              u == unescape(SubSeq(s, i + 1, e - 1))
          IN IF u.ok THEN [v |-> JStr(u.v), i |-> e + 1] ELSE [v |-> JErr, i |-> i]

\* a number that starts at position i: digits make an int, digits "." digits
\* a float, the double nearest to the decimal (up to three decimals here)
parse_number(s, i) ==
  LET j == skip_digits(s, i)
      k == skip_digits(s, j + 1)
      whole == Number(SubSeq(s, i, j - 1))
      frac == SubSeq(s, j + 1, k - 1)
  IN IF At(s, j) # "."
     THEN [v |-> JInt(whole), i |-> j]
     ELSE IF frac = <<>> \/ Len(frac) > 3 THEN [v |-> JErr, i |-> i]
     ELSE [v |-> JFloat(Double(whole * 1000
                                + Number(frac \o [n \in 1..(3 - Len(frac)) |-> "0"]))),
           i |-> k]

RECURSIVE parse_value(_, _)
RECURSIVE parse_elements(_, _, _)
RECURSIVE parse_members(_, _, _)

\* the JSON value that starts at position i and the position behind it
parse_value(s, i) ==
  LET c == At(s, i)
  IN IF c = "\"" THEN parse_string(s, i)
     ELSE IF c \in Digits THEN parse_number(s, i)
     ELSE IF c = "["
     THEN LET j == skip_ws(s, i + 1)
          IN IF At(s, j) = "]" THEN [v |-> JArr(<<>>), i |-> j + 1]
             ELSE parse_elements(s, j, <<>>)
     ELSE IF c = "{"
     THEN LET j == skip_ws(s, i + 1)
          IN IF At(s, j) = "}" THEN [v |-> JObj(<<>>), i |-> j + 1]
             ELSE parse_members(s, j, <<>>)
     ELSE [v |-> JErr, i |-> i]

\* the rest of an array whose items read so far are acc
parse_elements(s, i, acc) ==
  LET r == parse_value(s, i)
      j == skip_ws(s, r.i)
  IN IF r.v.t = "err" THEN [v |-> JErr, i |-> i]
     ELSE IF At(s, j) = "," THEN parse_elements(s, skip_ws(s, j + 1), Append(acc, r.v))
     ELSE IF At(s, j) = "]" THEN [v |-> JArr(Append(acc, r.v)), i |-> j + 1]
     ELSE [v |-> JErr, i |-> i]

\* the rest of an object whose members read so far are acc
parse_members(s, i, acc) ==
  LET key == IF At(s, i) = "\"" THEN parse_string(s, i) ELSE [v |-> JErr, i |-> i]
      c == skip_ws(s, key.i)
      r == parse_value(s, skip_ws(s, c + 1))
      j == skip_ws(s, r.i)
  IN IF key.v.t = "err" \/ At(s, c) # ":" THEN [v |-> JErr, i |-> i]
     ELSE IF r.v.t = "err" THEN [v |-> JErr, i |-> i]
     ELSE IF At(s, j) = ","
     THEN parse_members(s, skip_ws(s, j + 1), Append(acc, <<key.v.v, r.v>>))
     ELSE IF At(s, j) = "}" THEN [v |-> JObj(Append(acc, <<key.v.v, r.v>>)), i |-> j + 1]
     ELSE [v |-> JErr, i |-> i]

\* json.loads(s): the value, JErr when s is no JSON document
json_loads(s) ==
  LET r == parse_value(s, skip_ws(s, 1))
  IN IF r.v.t # "err" /\ skip_ws(s, r.i) = Len(s) + 1 THEN r.v ELSE JErr

-----------------------------------------------------------------------------
(* Properties of the conversion and the renderings (checked under          *)
(* SpecRender).                                                            *)

\* each text of the model without the white space around it, text by text
ExpectedTrim(text) ==
  CASE text = <<" ", "H", "i">> -> <<"H", "i">>
    [] text = <<"a", "\t", "b", " ", "\n">> -> <<"a", "\t", "b">>
    [] text = <<" ", " ">> -> <<>>
    [] text = <<" ", "H", "i", " ", "a", "\t", "b", "\n">> -> <<"H", "i", " ", "a", "\t", "b">>
    [] OTHER -> text

\* C14: transcribe returns as many segments as the engine gave, in the
\* engine's order; the k-th has id k (from 0) whatever id the engine gave,
\* start and end unchanged and the text without leading and trailing white
\* space; the full text is trimmed too and the language is the engine's.
C14_SegmentsRenumberedAndTrimmed ==
  step = "adapted" =>
    /\ Len(result.segments) = Len(env.segments)
    /\ \A k \in 1..Len(env.segments) :
         /\ result.segments[k].id = k - 1
         /\ result.segments[k].start = env.segments[k].start
         /\ result.segments[k].end = env.segments[k].end
         /\ result.segments[k].text = ExpectedTrim(env.segments[k].text)
    /\ result.text = ExpectedTrim(env.text)
    /\ result.language = env.language

\* the engine numbered two segments 7 and 3; they come back as 0 and 1, trimmed
C14_Witness ==
  /\ step = "adapted"
  /\ Len(env.segments) = 2
  /\ env.segments[1].id = 7 /\ env.segments[2].id = 3
  /\ result.segments[1] = Segment(0, Double(2500), Double(4100), <<"a", "\t", "b">>)
  /\ result.segments[2].id = 1 /\ result.segments[2].text = <<>>
  /\ result.text = <<"H", "i", " ", "a", "\t", "b">>

\* the line of s that starts at position i, and the position behind its
\* newline
ReadLine(s, i) ==
  LET N == {k \in i..Len(s) : s[k] = "\n"}
      e == IF N = {} THEN Len(s) + 1 ELSE CHOOSE k \in N : \A j \in N : k <= j
  IN [line |-> SubSeq(s, i, e - 1), next |-> e + 1]

\* The cues of a rendering read from position i on, one for each of the
\* texts: a number line (SRT only), a time line, the text, a blank line. The
\* text is read by its length. A cue is ok when the text is followed by a
\* newline and the blank line by a newline, or by the end for the last cue.
RECURSIVE Cues(_, _, _, _)
Cues(s, i, texts, numbered) ==
  IF texts = <<>> THEN <<>>
  ELSE LET num == IF numbered THEN ReadLine(s, i) ELSE [line |-> <<>>, next |-> i]
           time == ReadLine(s, num.next)
           last == time.next + Len(texts[1]) - 1
           text == IF last <= Len(s) THEN SubSeq(s, time.next, last) ELSE <<"?">>
           blank == last + 2
       IN << [num |-> num.line, time |-> time.line, text |-> text,
              ok |-> /\ At(s, last + 1) = "\n"
                     /\ At(s, blank) = (IF Len(texts) = 1 THEN "EOF" ELSE "\n"),
              next |-> blank + 1] >>
            \o Cues(s, blank + 1, Tail(texts), numbered)

Texts == [k \in 1..Len(result.segments) |-> result.segments[k].text]

\* the time line of a segment with sep before the milliseconds
TimeLine(segment, fmt) ==
  format_timestamp(segment.start, fmt).value \o <<" ", "-", "-", ">", " ">>
    \o format_timestamp(segment.end, fmt).value

\* s holds sep at the two places before the milliseconds and nowhere else
\* one of "," and "."
SeparatedBy(s, sep) ==
  {k \in 1..Len(s) : s[k] \in {",", "."}} = {k \in 1..Len(s) : s[k] = sep}

CommaToPeriod(s) == [k \in 1..Len(s) |-> IF s[k] = "," THEN "." ELSE s[k]]

\* C16: the output of generate_vtt begins with the line WEBVTT and a blank
\* line, also without segments; then for each segment in list order the
\* time line, the text and a blank line, without numbers; its cues are those
\* of the SRT rendering in the same order, the time lines differing only in
\* "." for "," before the milliseconds.
C16_VttHeaderAndSameCuesAsSrt ==
  vtt \in DOMAIN fs =>
    LET out == fs[vtt]
        n == Len(result.segments)
        C == Cues(out, 9, Texts, FALSE)
    IN /\ Len(out) >= 7 /\ SubSeq(out, 1, 7) = <<"W", "E", "B", "V", "T", "T", "\n">>
       /\ split(out, "\n")[1] = <<"W", "E", "B", "V", "T", "T">> /\ split(out, "\n")[2] = <<>>
       /\ n = 0 => out = <<"W", "E", "B", "V", "T", "T", "\n">>
       /\ n > 0 => At(out, 8) = "\n"
       /\ \A k \in 1..n :
            /\ C[k].ok
            /\ C[k].time = TimeLine(result.segments[k], vtt)
            /\ SeparatedBy(C[k].time, ".")
            /\ C[k].text = result.segments[k].text
       /\ srt \in DOMAIN fs =>
            LET S == Cues(fs[srt], 1, Texts, TRUE)
            IN /\ Len(S) = Len(C)
               /\ \A k \in 1..n :
                    /\ S[k].text = C[k].text
                    /\ CommaToPeriod(S[k].time) = C[k].time
                    /\ S[k].time # C[k].time

\* both renderings of a result of two segments: the first cue has the time
\* line with periods in the one and with commas in the other
C16_Witness ==
  /\ vtt \in DOMAIN fs /\ srt \in DOMAIN fs
  /\ Len(result.segments) = 2
  /\ Cues(fs[vtt], 9, Texts, FALSE)[1].time = <<"0", "0", ":", "0", "0", ":", "0", "0", ".", "0", "0", "0", " ", "-", "-", ">", " ", "0", "0", ":", "0", "0", ":", "0", "2", ".", "5", "0", "0">>
  /\ Cues(fs[srt], 1, Texts, TRUE)[1].time = <<"0", "0", ":", "0", "0", ":", "0", "0", ",", "0", "0", "0", " ", "-", "-", ">", " ", "0", "0", ":", "0", "0", ":", "0", "2", ",", "5", "0", "0">>
  /\ Cues(fs[vtt], 9, Texts, FALSE)[2].text = Cues(fs[srt], 1, Texts, TRUE)[2].text

\* the value of the member key of a parsed object, JErr if it has none
Get(obj, key) ==
  LET K == {k \in 1..Len(obj.v) : obj.v[k][1] = key}
  IN IF K = {} THEN JErr ELSE obj.v[CHOOSE k \in K : \A j \in K : j <= k][2]

Keys(obj) == [k \in 1..Len(obj.v) |-> obj.v[k][1]]

\* the parsed value is the JSON value of kind t that holds v
Holds(val, t, v) == val.t = t /\ val.v = v

\* C19: parsing the output of generate_json gives back the text, the
\* language and the segments in order, each with its id, start, end and
\* text unchanged, in a document whose top-level keys are exactly text,
\* language and segments.
C19_JsonRoundTrip ==
  json \in DOMAIN fs =>
    LET doc == json_loads(fs[json])
        segs == Get(doc, <<"s", "e", "g", "m", "e", "n", "t", "s">>)
    IN /\ doc.t = "obj"
       /\ Len(doc.v) = 3
       /\ {Keys(doc)[k] : k \in 1..3} = { <<"t", "e", "x", "t">>, <<"l", "a", "n", "g", "u", "a", "g", "e">>, <<"s", "e", "g", "m", "e", "n", "t", "s">> }
       /\ Holds(Get(doc, <<"t", "e", "x", "t">>), "str", result.text)
       /\ Holds(Get(doc, <<"l", "a", "n", "g", "u", "a", "g", "e">>), "str", result.language)
       /\ segs.t = "arr"
       /\ Len(segs.v) = Len(result.segments)
       /\ \A k \in 1..Len(result.segments) :
            /\ segs.v[k].t = "obj"
            /\ Len(segs.v[k].v) = 4
            /\ Holds(Get(segs.v[k], <<"i", "d">>), "int", result.segments[k].id)
            /\ Holds(Get(segs.v[k], <<"s", "t", "a", "r", "t">>), "float", result.segments[k].start)
            /\ Holds(Get(segs.v[k], <<"e", "n", "d">>), "float", result.segments[k].end)
            /\ Holds(Get(segs.v[k], <<"t", "e", "x", "t">>), "str", result.segments[k].text)

\* a result whose text holds a tab and a newline and whose segment text holds
\* a quote and a backslash was written and read back
C19_Witness ==
  /\ json \in DOMAIN fs /\ step = "made"
  /\ result.text = <<" ", "H", "i", " ", "a", "\t", "b", "\n">>
  /\ Len(result.segments) = 2
  /\ result.segments[2].text = <<"q", "\"", "\\">>
  /\ result.segments[2].end = Double(3661001)
  /\ json_loads(fs[json]).t = "obj"

-----------------------------------------------------------------------------
(* audio.preprocess_audio called on its own *)

\* SAMPLE_RATE = 16000
SAMPLE_RATE == 16000

\* the largest channel count of an input
MaxChannels == 2

\* AudioSegment.set_channels(channels): the same audio with that many channels
set_channels(audio, channels) == [audio EXCEPT !.channels = channels]

\* AudioSegment.set_frame_rate(frame_rate): the same audio at that rate
set_frame_rate(audio, frame_rate) == [audio EXCEPT !.frame_rate = frame_rate]

\* preprocess_audio with the resampling done whatever the rate is
preprocess_audio_always_resampling(audio) ==
  LET downmix == audio.channels > 1
      mono == IF downmix THEN set_channels(audio, 1) ELSE audio
  IN [value |-> set_frame_rate(mono, SAMPLE_RATE),
      steps |-> (IF downmix THEN <<"set_channels">> ELSE <<>>)
                \o <<"set_frame_rate">>]

\* preprocess_audio(audio): the audio returned and the conversions made on
\* the way, each of them announced by one debug record
preprocess_audio_of(audio) ==
  LET downmix == audio.channels > 1
      mono == IF downmix THEN set_channels(audio, 1) ELSE audio
      resample == mono.frame_rate # SAMPLE_RATE
  IN [value |-> IF resample THEN set_frame_rate(mono, SAMPLE_RATE) ELSE mono,
      steps |-> (IF downmix THEN <<"set_channels">> ELSE <<>>)
                \o (IF resample THEN <<"set_frame_rate">> ELSE <<>>)]

InitPreprocess ==
  /\ args = None /\ env = None /\ pc = "unit" /\ exit_code = "none"
  /\ audio_files = <<>> /\ file_i = 0 /\ cur = NoAudio /\ exc = NoExc
  /\ temp_file = 0 /\ temps = {} /\ next_temp = 1
  /\ self_model = NoModel /\ tr = TrInit /\ result = NoAudio
  /\ step = "ready"
  /\ save_args = [result |-> NoResult, output_path |-> <<>>, formats |-> <<>>]
  /\ fmt_i = 0 /\ saved_files = EmptyDict
  /\ fs = EmptyDict /\ log = <<>> /\ trace = <<>>

\* one call preprocess_audio(audio), on a fresh input or on the audio the
\* call before returned: 1..MaxChannels channels at a rate below, at or
\* above SAMPLE_RATE; each conversion made leaves a debug record; trace
\* keeps every call with what it did
preprocess_audio_call ==
  /\ pc = "unit" /\ step = "ready"
  /\ tr.calls < MaxCalls
  /\ \E c \in 1..MaxChannels, rate \in {8000, SAMPLE_RATE, 44100, 48000} :
       LET audio == Audio(c, rate)
           r == preprocess_audio_of(audio)
       IN /\ cur' = audio
          /\ result' = r.value
          /\ log' = log \o [k \in 1..Len(r.steps) |->
                              LogRec("debug",
                                     IF r.steps[k] = "set_channels"
                                     THEN "Converting to mono" ELSE "Resampling",
                                     <<>>)]
          /\ trace' = Append(trace, Event("preprocess_audio", audio, r))
  /\ tr' = [tr EXCEPT !.calls = @ + 1]
  /\ UNCHANGED <<args, env, pc, exit_code, audio_files, file_i, step, exc,
                 temp_file, temps, next_temp, self_model, save_args, fmt_i,
                 saved_files, fs>>

NextPreprocess == preprocess_audio_call

SpecPreprocess == InitPreprocess /\ [][NextPreprocess]_vars

-----------------------------------------------------------------------------
(* Properties of preprocess_audio (checked under SpecPreprocess). *)

\* C20: whatever the channel count (one or more) and the sample rate of the
\* input, preprocess_audio returns audio of exactly 1 channel at 16000 Hz;
\* called on what it returned, it makes neither the downmix nor the
\* resampling and returns the same channel count and rate.
C20_MonoAt16kHzAndIdempotent ==
  \A k \in 1..Len(trace) :
    LET e == trace[k]
        again == preprocess_audio_of(e.outcome.value)
    IN /\ e.outcome.value.channels = 1
       /\ e.outcome.value.frame_rate = 16000
       /\ again.steps = <<>>
       /\ again.value = e.outcome.value
       /\ (k > 1 /\ e.arg = trace[k - 1].outcome.value
             => /\ e.outcome.steps = <<>>
                /\ e.outcome.value = e.arg)

\* a stereo input at 44100 Hz went through both conversions, and the call
\* after it, on the audio returned, made none and logged nothing
C20_Witness ==
  /\ Len(trace) = 2
  /\ trace[1].arg = Audio(2, 44100)
  /\ trace[1].outcome.steps = <<"set_channels", "set_frame_rate">>
  /\ trace[2].arg = trace[1].outcome.value
  /\ trace[2].outcome.steps = <<>>
  /\ result = Audio(1, 16000)
  /\ Len(log) = 2

-----------------------------------------------------------------------------
(* audio.get_audio_array called on its own *)

\* most samples in one audio
MaxSamples == 2

\* a numpy.float32 (IEEE-754 single, 24-bit significand) held exactly: the
\* value sign * mant * 2^exp with mant odd, or mant = 0 for 0.0
RECURSIVE Float32(_, _, _)
Float32(sign, mant, exp) ==
  IF mant = 0 THEN [sign |-> 1, mant |-> 0, exp |-> 0]
  ELSE IF mant % 2 = 0 THEN Float32(sign, mant \div 2, exp + 1)
  ELSE [sign |-> sign, mant |-> mant, exp |-> exp]

\* np.array(samples, dtype=np.float32) on one sample n, a C integer of at
\* most 32 bits: n itself when it has at most 24 significant bits, else the
\* nearest multiple of 2^s, s the number of bits above 24, ties to the even
\* one. The magnitude is handled as neg = -|n|, which exists for every n
\* from -2^31 on; L is the number of bits of |n|.
float32(n) ==
  LET neg == IF n > 0 THEN 0 - n ELSE n
      RECURSIVE BitLength(_, _)
      BitLength(L, low) ==
        IF neg > low THEN L ELSE IF L = 31 THEN 32 ELSE BitLength(L + 1, 2 * low)
      s == IF BitLength(0, -1) > 24 THEN BitLength(0, -1) - 24 ELSE 0
      r == (Pow2(s) - (neg % Pow2(s))) % Pow2(s)
      q == 0 - ((neg + r) \div Pow2(s))
      up == s > 0 /\ (2 * r > Pow2(s) \/ (2 * r = Pow2(s) /\ q % 2 = 1))
  IN Float32(IF n < 0 THEN -1 ELSE 1, IF up THEN q + 1 ELSE q, s)

\* get_audio_array with the amplitude taken as 1 << (8 * sample_width)
get_audio_array_full_scale(sample_width, samples) ==
  [k \in 1..Len(samples) |->
     LET x == float32(samples[k])
     IN Float32(x.sign, x.mant, x.exp - 8 * sample_width)]

\* get_audio_array(audio) for an audio of that sample width in bytes and
\* those samples: each sample is cast to float32 and divided by
\* max_possible_amplitude = 1 << (8 * sample_width - 1), a power of two, so
\* the division only lowers the exponent
get_audio_array_of(sample_width, samples) ==
  [k \in 1..Len(samples) |->
     LET x == float32(samples[k])
     IN Float32(x.sign, x.mant, x.exp - (8 * sample_width - 1))]

\* an audio of 1, 2 or 4 bytes a sample with up to MaxSamples samples: the
\* ends of the signed range and their neighbours, the values around zero
\* and, for 4 bytes, values of more than 24 bits below, at and above a tie
InitArray ==
  /\ \E w \in {1, 2, 4} :
       LET top == IF w = 4 THEN 2147483647 ELSE Pow2(8 * w - 1) - 1
           Samples ==
             {0 - top - 1, 0 - top, -1, 0, 1, top - 1, top}
             \cup (IF w = 4
                   THEN {16777216, 16777217, 16777218, 16777219, -16777217,
                         2147483583, 2147483584, -2147483585}
                   ELSE {})
       IN args \in [sample_width : {w}, samples : BoundedSeqs(Samples, MaxSamples)]
  /\ env = None /\ pc = "unit" /\ exit_code = "none"
  /\ audio_files = <<>> /\ file_i = 0 /\ cur = <<>> /\ exc = NoExc
  /\ temp_file = 0 /\ temps = {} /\ next_temp = 1
  /\ self_model = NoModel /\ tr = TrInit /\ result = <<>>
  /\ step = "ready"
  /\ save_args = [result |-> NoResult, output_path |-> <<>>, formats |-> <<>>]
  /\ fmt_i = 0 /\ saved_files = EmptyDict
  /\ fs = EmptyDict /\ log = <<>> /\ trace = <<>>

\* one call get_audio_array(audio)
get_audio_array_call ==
  /\ pc = "unit" /\ step = "ready"
  /\ result' = get_audio_array_of(args.sample_width, args.samples)
  /\ step' = "converted"
  /\ UNCHANGED <<args, env, pc, exit_code, audio_files, file_i, cur, exc,
                 temp_file, temps, next_temp, self_model, tr, save_args, fmt_i,
                 saved_files, fs, log, trace>>

NextArray == get_audio_array_call

SpecArray == InitArray /\ [][NextArray]_vars

-----------------------------------------------------------------------------
(* Properties of get_audio_array (checked under SpecArray). *)

\* the float32 x is -1.0
IsMinusOne(x) == x.sign = -1 /\ x.mant = 1 /\ x.exp = 0

\* the float32 x is 1.0
IsOne(x) == x.sign = 1 /\ x.mant = 1 /\ x.exp = 0

\* -1.0 <= x <= 1.0 (mant has at most 24 bits, so it is below 2^25)
InUnitInterval(x) ==
  x.mant = 0 \/ (x.exp <= 0 /\ (x.exp <= -25 \/ x.mant <= Pow2(-x.exp)))

\* the smallest sample of 32 bits, -2^31
MinInt32 == -2147483647 - 1

\* -|v| for the float32 x = v / 2^(bits-1) with v a whole number of at most
\* 32 bits, 1 when there is no such v
NegScaled(x, bits) ==
  LET e == x.exp + bits - 1
  IN IF x.mant = 0 THEN 0
     ELSE IF e < 0 \/ e > 31 THEN 1
     ELSE IF e = 31 THEN (IF x.mant = 1 THEN MinInt32 ELSE 1)
     ELSE IF x.mant > 2147483647 \div Pow2(e) THEN 1
     ELSE 0 - x.mant * Pow2(e)

\* x is exactly n / 2^(bits-1)
IsQuotient(x, n, bits) ==
  /\ NegScaled(x, bits) = (IF n > 0 THEN 0 - n ELSE n)
  /\ (n # 0 => x.sign = (IF n < 0 THEN -1 ELSE 1))

\* x is n / 2^(bits-1) with a relative error of at most 2^-24
IsNearQuotient(x, n, bits) ==
  LET v == NegScaled(x, bits)
      m == IF n > 0 THEN 0 - n ELSE n
      d == IF v > m THEN v - m ELSE m - v
  IN /\ v <= 0
     /\ (n # 0 => x.sign = (IF n < 0 THEN -1 ELSE 1))
     /\ d <= (IF m = MinInt32 THEN 128 ELSE (0 - m) \div 16777216)

\* C21: for every sample width of b bits and every sample of the signed
\* range of b bits, get_audio_array gives exactly sample / 2^(b-1), a value
\* in [-1.0, 1.0], the smallest sample gives exactly -1.0, and the output has
\* one value for each sample in the same order.
C21_ExactQuotientInUnitInterval ==
  step = "converted" =>
    /\ Len(result) = Len(args.samples)
    /\ \A k \in 1..Len(result) :
         LET bits == 8 * args.sample_width
             n == args.samples[k]
         IN /\ IsQuotient(result[k], n, bits)
            /\ InUnitInterval(result[k])
            /\ (n = (IF bits = 32 THEN MinInt32 ELSE 0 - Pow2(bits - 1))
                  => IsMinusOne(result[k]))

\* C21 (amended): the output has one float32 for each sample in the same
\* order, in [-1.0, 1.0]; it is exactly sample / 2^(b-1) for samples of 8
\* and 16 bits and for samples of magnitude up to 2^24, and else that
\* quotient rounded to float32 (relative error at most 2^-24); the smallest
\* sample gives exactly -1.0, and the largest 32-bit sample exactly 1.0.
C21_QuotientRoundedToFloat32 ==
  step = "converted" =>
    /\ Len(result) = Len(args.samples)
    /\ \A k \in 1..Len(result) :
         LET bits == 8 * args.sample_width
             n == args.samples[k]
         IN /\ InUnitInterval(result[k])
            /\ IsNearQuotient(result[k], n, bits)
            /\ (bits < 32 \/ (n >= -16777216 /\ n <= 16777216)
                  => IsQuotient(result[k], n, bits))
            /\ (n = (IF bits = 32 THEN MinInt32 ELSE 0 - Pow2(bits - 1))
                  => IsMinusOne(result[k]))
            /\ (bits = 32 /\ n = 2147483647 => IsOne(result[k]))

\* the two ends of the 32-bit range were converted: 1.0 and -1.0
C21_Witness ==
  /\ step = "converted"
  /\ args.sample_width = 4
  /\ args.samples = <<2147483647, MinInt32>>
  /\ IsOne(result[1]) /\ IsMinusOne(result[2])

-----------------------------------------------------------------------------
(* Properties of the exit code, the engine loads and the output paths of a
   command line run (checked under Spec). *)

\* the files of the batch whose processing raised ("Failed to process ...")
FailedFiles ==
  LET F == SelectSeq(log, LAMBDA r : r.msg = "Failed to process")
  IN [k \in 1..Len(F) |-> F[k].arg]

\* C22: the exit code of main does not reflect failures of single files or
\* formats: after a batch in which at least one audio file was found main
\* returns 0, whatever happened to the files; for a single file main returns
\* 0 whenever process_single_file returned, even with an empty mapping.
C22_ExitCodeIgnoresFailures ==
  pc = "returned" =>
    /\ (env.kind = "dir" /\ args.batch /\ audio_files # <<>> => exit_code = "0")
    /\ (env.kind = "file" /\ exc = NoExc => exit_code = "0")
    /\ (FailedFiles # <<>> => exit_code = "0")

\* main returned 0 after a batch of two files: the first one raised, the
\* second one returned although none of its formats was written
C22_Witness ==
  /\ pc = "returned" /\ exit_code = "0"
  /\ Len(audio_files) = 2
  /\ FailedFiles = <<audio_files[1]>>
  /\ exc = NoExc
  /\ save_args.formats # <<>>
  /\ saved_files = EmptyDict

\* C23: every call of process_single_file makes a WhisperTranscriber of its
\* own, so every file that reaches transcription has the engine loaded for
\* it: the instance holds no handle when transcribe() is called, each
\* transcribe() call makes one load, a run uses the handle of that very load,
\* and after a batch in which all N files reached transcription the engine
\* was loaded N times.
C23_EngineLoadedOncePerFile ==
  /\ step = "transcribe" => self_model = NoModel
  /\ tr.loads = tr.calls
  /\ \A k \in 1..Len(trace) :
       trace[k].op = "transcribe" =>
         LET e == trace[k].outcome
         IN /\ e.before = NoModel
            /\ e.loads = 1
            /\ e.runs = 1 => (e.used = e.after /\ e.used # NoModel
                                /\ e.used = Handle(tr.load_oks))
  /\ (pc = "returned" /\ audio_files # <<>> /\ tr.calls = Len(audio_files))
       => tr.loads = Len(audio_files)

\* a batch of two files is over, both reached transcription and both loads
\* succeeded: two loads, the second file ran on the second handle
C23_Witness ==
  /\ pc = "returned" /\ Len(audio_files) = 2
  /\ tr.calls = 2 /\ tr.loads = 2 /\ tr.load_oks = 2 /\ tr.runs = 2
  /\ self_model = Handle(2)

\* the base paths of the names in the model, written out by hand
ExpectedBase(name) ==
  CASE name = <<"a", ".", "m", "p", "3">> -> <<"a">>
    [] name = <<"a", ".", "w", "a", "v">> -> <<"a">>
    [] name = <<"b", ".", "w", "a", "v">> -> <<"b">>
    [] name = <<"o", ".", "x">> -> <<"o">>
    [] OTHER -> name

\* the output base path of the running call: --output without its extension
\* for the single file when --output is given, and else, as for every file of
\* a batch, the input path without its extension
C24_BasePath ==
  (pc \in {"single", "batch"} /\ step \in {"save", "save_returned"}) =>
    /\ save_args.output_path =
         (IF pc = "single" /\ args.output # <<>>
          THEN ExpectedBase(args.output) ELSE ExpectedBase(cur))
    /\ \A f \in DOMAIN saved_files :
         /\ SubSeq(saved_files[f], 1, Len(save_args.output_path)) = save_args.output_path
         /\ saved_files[f] \in DOMAIN fs
         /\ step = "save_returned" => fs[saved_files[f]].content.of = [of |-> cur]

\* an output file goes over to another input only in a batch, from an input
\* earlier in the sorted order that differs from the running one in its
\* extension only, and it then holds what the running call wrote
C24_Overwrite ==
  \A p \in DOMAIN fs :
    (p \in DOMAIN fs' /\ fs'[p] # fs[p] /\ fs[p].content.of # [of |-> cur]) =>
      /\ pc = "batch"
      /\ \E j \in 1..(file_i - 1) :
           /\ fs[p].content.of = [of |-> audio_files[j]]
           /\ audio_files[j] # cur
           /\ ExpectedBase(audio_files[j]) = ExpectedBase(cur)
      /\ fs'[p].content.of = [of |-> cur]

\* C24: the output base path is --output without its final extension when
\* --output is given (single file), and else the input path without its final
\* extension; a batch never uses --output, so two audio files that differ in
\* their extension only have the same base path and the one later in sorted
\* order overwrites the output files of the earlier one.
C24_OutputBasePathAndCollision == [](C24_BasePath) /\ [][C24_Overwrite]_vars

\* a batch over a.mp3 and a.wav with --output given: a.mp3 saved a.txt, and
\* now the call for a.wav has returned with a.txt holding its transcript
C24_Witness ==
  /\ pc = "batch" /\ step = "save_returned" /\ args.output # <<>>
  /\ Processed = << <<"a", ".", "m", "p", "3">>, <<"a", ".", "w", "a", "v">> >>
  /\ args.formats = <<txt>>
  /\ Len(SelectSeq(log, LAMBDA r : r.msg = "Saved output")) = 2
  /\ saved_files = DictPut(EmptyDict, txt, <<"a", ".", "t", "x", "t">>)
  /\ fs[<<"a", ".", "t", "x", "t">>].content.of = [of |-> <<"a", ".", "w", "a", "v">>]
  /\ fs[<<"a", ".", "t", "x", "t">>].status = "complete"

====
